---------------------------- MODULE Spec2Model ----------------------------
(***************************************************************************)
(* rescueclaw: the watchdog daemon of src/src/main.rs.  Three activities   *)
(* run concurrently: the health loop (src/src/health/mod.rs), the          *)
(* scheduled backup loop (src/src/backup/mod.rs) and the command interface *)
(* (src/src/telegram/mod.rs and the CLI of src/src/main.rs, which call     *)
(* take_snapshot and restore).  They share the backup directory, the live  *)
(* workspace / config trees and the gateway process.                       *)
(***************************************************************************)
EXTENDS Naturals, Sequences, FiniteSets

(***************************************************************************)
(* Bounds of the model.                                                    *)
(***************************************************************************)
MaxTime == 3
MaxCmds == 1
MaxReq == 2
MaxRetention == 1
MaxWrites == 1
MaxWindow == 1
MaxThreshold == 2
MaxOthers == 1

(***************************************************************************)
(* Program constants.                                                      *)
(***************************************************************************)
DefaultPort == 7744
MaxPort == 65535
SparseLimit == 3

VARIABLES
    now,            \* the wall clock, in seconds (Utc::now / SystemTime::now)
    live,           \* the live workspace and config trees
    dir,            \* the backup directory: file name -> file
    gw,             \* the gateway process: "up", "hung" (bound, unresponsive), "down"
    req,            \* the checkpoint-request signal file
    reqGen,         \* how many times the signal has been filed
    writes,         \* how many times the agent has rewritten its trees
    cfg,            \* the Config value of this daemon run
    incidents,      \* incidents.jsonl, one entry per line
    backup_path,    \* cfg.backup.path on disk: "missing" until it is created, or "dir"
    tg,             \* the Telegram listener: whether listen runs, its copy of
                    \* cfg.telegram.allowed_users, the sender of the last message
                    \* and what the message made the listener run
    outside,        \* the files a restore has written outside the directory it
                    \* unpacks into: [root, entry], root "scratch" or "live"
    hpc, hSlept, hreq, consecutive_failures, active_checkpoint,
    bpc, bSlept,
    cpc, cmds,
    tpc, tid, tret, \* take_snapshot, per caller: position, id, returned Ok
    rpc, rarg, rsnap, rwas_running, rissues, rres,  \* restore, per caller
    rdid,           \* the steps a restore has taken: "kill", "extract", "start";
                    \* "launched" when a start command exited with success,
                    \* "alive" when wait_for_agent saw the gateway answer
    rsig,           \* what kill_process ran for a restore, and what its check said
    vws,            \* a call of validate_workspace: the path it is given, its result
    host,           \* this host: what `ss` and `lsof` are on it ("missing", "blind",
                    \* "sees"), the files of the backup directory it refuses to remove
    rfind,          \* the commands find_gateway_pid has run for a restore, in order
    rport,          \* target_port of a restore, once read_gateway_port has returned
    opened          \* the checkpoints opened so far

vars == <<now, live, dir, backup_path, outside, tg, gw, req, reqGen, writes, cfg, incidents,
          hpc, hSlept, hreq, consecutive_failures, active_checkpoint,
          bpc, bSlept, cpc, cmds, tpc, tid, tret,
          rpc, rarg, rsnap, rwas_running, rissues, rres, rdid, rsig, rfind, rport, vws, host, opened>>

Callers == {"health", "backup", "cmd"}
RestoreCallers == {"health", "cmd"}

(***************************************************************************)
(* The content of the supervised service's config file, as far as          *)
(* validate_openclaw_config and read_gateway_port read it.                 *)
(***************************************************************************)
NoPort == [kind |-> "absent", val |-> 0]
Port(n) == [kind |-> "num", val |-> n]

GoodProvider == [baseUrl |-> "https", apiKey |-> "real", models |-> "nonempty"]
EmptyUrlProvider == [baseUrl |-> "empty", apiKey |-> "real", models |-> "nonempty"]

\* the config of tests/backup_restore.rs: defaultModel and providers at the top
\* level, which the validator does not read; gateway.port 7744
JsonTest ==
    [parses |-> TRUE, has_model |-> FALSE, providers |-> "absent", plist |-> <<>>,
     profiles |-> "absent", gateway |-> TRUE, port |-> Port(DefaultPort)]
JsonClean ==
    [parses |-> TRUE, has_model |-> TRUE, providers |-> "object",
     plist |-> <<GoodProvider>>, profiles |-> "nonempty", gateway |-> TRUE,
     port |-> Port(DefaultPort)]
JsonBadUrl ==
    [parses |-> TRUE, has_model |-> TRUE, providers |-> "object",
     plist |-> <<EmptyUrlProvider>>, profiles |-> "absent", gateway |-> TRUE,
     port |-> Port(DefaultPort)]

(***************************************************************************)
(* Directory trees.  A workspace node is absent, a file or a directory     *)
(* with a content version; a config node is absent or a file with a JSON;  *)
(* sess is agents/main/sessions under the config directory.                *)
(***************************************************************************)
WsNames == {"SOUL.md", "AGENTS.md", "memory", "notes.txt"}
CfgNames == {"openclaw.json", "clawdbot.json"}

\* CORE_FILES, restricted to the names of the model
CORE_FILES == {"SOUL.md", "AGENTS.md", "memory"}
\* CONFIG_FILES, restricted to the names of the model
CONFIG_FILES == {"openclaw.json", "clawdbot.json"}

Absent == [kind |-> "absent", v |-> 0]
File(v) == [kind |-> "file", v |-> v]
Dir(v) == [kind |-> "dir", v |-> v]
NoCfg == [kind |-> "absent", json |-> JsonTest]
CfgFile(j) == [kind |-> "file", json |-> j]

TreeGood ==
    [ws |-> [n \in WsNames |-> IF n = "memory" THEN Dir(1) ELSE File(1)],
     cfg |-> [n \in CfgNames |-> IF n = "openclaw.json" THEN CfgFile(JsonTest) ELSE NoCfg],
     sess |-> Absent]
TreeClean ==
    [ws |-> [n \in WsNames |-> IF n = "memory" THEN Dir(2) ELSE File(2)],
     cfg |-> [n \in CfgNames |-> IF n = "openclaw.json" THEN CfgFile(JsonClean) ELSE NoCfg],
     sess |-> Absent]
TreeBroken ==
    [ws |-> [n \in WsNames |-> IF n = "SOUL.md" THEN Absent
                               ELSE IF n = "memory" THEN Dir(3) ELSE File(3)],
     cfg |-> [n \in CfgNames |-> IF n = "openclaw.json" THEN CfgFile(JsonBadUrl) ELSE NoCfg],
     sess |-> Absent]
LiveTrees == {TreeGood, TreeClean, TreeBroken}


(***************************************************************************)
(* The validation gate: src/src/validate/mod.rs.                           *)
(***************************************************************************)
Error(m) == [severity |-> "Error", message |-> m]
Warning(m) == [severity |-> "Warning", message |-> m]

\* the per-provider checks of validate_openclaw_config (lines 92-136)
ProviderIssues(p) ==
    (IF p.baseUrl = "empty" THEN <<Error("empty baseUrl")>>
     ELSE IF p.baseUrl = "other" THEN <<Error("invalid baseUrl")>>
     ELSE <<>>)
    \o (IF p.apiKey = "empty" THEN <<Warning("empty apiKey")>>
        ELSE IF p.apiKey = "placeholder" THEN <<Warning("placeholder apiKey")>>
        ELSE <<>>)
    \o (IF p.models = "empty" THEN <<Warning("empty models list")>> ELSE <<>>)

RECURSIVE ProvidersIssues(_)
ProvidersIssues(ps) ==
    IF ps = <<>> THEN <<>> ELSE ProviderIssues(Head(ps)) \o ProvidersIssues(Tail(ps))

\* validate_openclaw_config on a config directory c (a function on CfgNames)
validate_openclaw_config(c) ==
    IF c["openclaw.json"].kind = "absent" /\ c["clawdbot.json"].kind = "absent"
    THEN <<Error("OpenClaw config file not found")>>
    ELSE LET j == IF c["openclaw.json"].kind # "absent"
                  THEN c["openclaw.json"].json ELSE c["clawdbot.json"].json
         IN IF ~j.parses THEN <<Error("Invalid JSON")>>
            ELSE (IF ~j.has_model THEN <<Warning("No primary model configured")>> ELSE <<>>)
                 \o (IF j.providers = "absent"
                     THEN <<Warning("No model providers section")>>
                     ELSE IF j.providers = "object"
                     THEN IF j.plist = <<>>
                          THEN <<Warning("No model providers configured")>>
                          ELSE ProvidersIssues(j.plist)
                     ELSE <<>>)
                 \o (IF j.profiles = "empty"
                     THEN <<Warning("No auth profiles configured")>> ELSE <<>>)
                 \o (IF ~j.gateway THEN <<Warning("Missing gateway configuration")>>
                     ELSE IF j.port.kind = "num" /\ (j.port.val = 0 \/ j.port.val > MaxPort)
                     THEN <<Error("Invalid gateway port")>>
                     ELSE <<>>)

\* a validate_workspace that only looks for the identity file
ValidateIdentityOnly(kind, w, count) ==
    IF w["SOUL.md"].kind = "absent" THEN <<Error("Missing SOUL.md")>> ELSE <<>>

\* validate_workspace (lines 174-219) on a path of the given kind ("missing",
\* "file", "dir") holding the nodes w, for which read_dir yields count entries
validate_workspace(kind, w, count) ==
    IF kind = "missing" THEN <<Error("Workspace path does not exist")>>
    ELSE IF kind # "dir" THEN <<Error("Workspace path is not a directory")>>
    ELSE (IF w["SOUL.md"].kind = "absent" THEN <<Error("Missing SOUL.md")>> ELSE <<>>)
         \o (IF w["AGENTS.md"].kind = "absent" THEN <<Warning("Missing AGENTS.md")>> ELSE <<>>)
         \o (IF w["memory"].kind = "absent" THEN <<Warning("Missing memory/ directory")>>
             ELSE IF w["memory"].kind # "dir"
             THEN <<Error("memory exists but is not a directory")>>
             ELSE <<>>)
         \o (IF count < SparseLimit
             THEN <<Warning("Workspace seems sparse")>> ELSE <<>>)

\* the entries of a workspace that holds the nodes w and nothing else
EntryCount(w) == Cardinality({n \in WsNames : w[n].kind # "absent"})

\* no call of validate_workspace is being looked at
NoValidation == [path |-> "missing", ws |-> [n \in WsNames |-> Absent], others |-> 0,
                 done |-> FALSE, issues |-> <<>>]

\* a filter that lets every issue through, whatever its severity
AnyIssue(issues) == issues

\* the errors of restore_with_options (lines 61-64)
ErrorsOf(issues) == SelectSeq(issues, LAMBDA i : i.severity = "Error")

(***************************************************************************)
(* The backup directory: src/src/backup/mod.rs.                            *)
(***************************************************************************)
\* backup-<stamp>.tar.gz, and one other file with the extension gz
BackupName(t) == [kind |-> "backup", t |-> t]
ForeignName == [kind |-> "other", t |-> 0]
FileNames == {BackupName(t) : t \in 0..MaxTime} \cup {ForeignName}

\* the order of the file names as strings: the stamps are fixed-width digits,
\* and "backup-" sorts before the other name ("incidents.jsonl.gz")
NameLess(a, b) ==
    \/ a.kind = "backup" /\ b.kind = "other"
    \/ a.kind = b.kind /\ a.t < b.t

\* the id of line 46: the clock formatted to the second
FormatId(t) == [kind |-> "stamp", t |-> t]
\* the file name of line 47
FileNameOf(id) == BackupName(id.t)
\* the id list_snapshots derives from a file name (lines 150-155): the stamp
\* between "backup-" and ".tar.gz", else the whole file name
IdOf(f) == IF f.kind = "backup" THEN [kind |-> "stamp", t |-> f.t]
           ELSE [kind |-> "filename", t |-> 0]

\* the prefixes of the entry paths extraction looks for
Prefixes == {"workspace", "config", "sessions"}
\* entries an archive may hold besides those take_snapshot writes: one under
\* none of the prefixes (other/x), and under each prefix one whose path goes
\* on with parent-directory components (workspace/../../x)
Unprefixed == [prefix |-> "none", up |-> FALSE]
Escape(p) == [prefix |-> p, up |-> TRUE]
ExtraEntries == {Unprefixed} \cup {Escape(p) : p \in Prefixes}

EmptyArch ==
    [ws |-> [n \in WsNames |-> Absent], cfg |-> [n \in CfgNames |-> NoCfg],
     sessions |-> Absent,
     manifest |-> [id |-> FormatId(0), file_count |-> 0],
     extra |-> {}]
NoFile == [state |-> "absent", arch |-> EmptyArch]
PartialFile == [state |-> "partial", arch |-> EmptyArch]
ForeignFile == [state |-> "foreign", arch |-> EmptyArch]

\* the archive take_snapshot builds from the live trees l (lines 60-108):
\* the existing entries of CORE_FILES under workspace/, those of CONFIG_FILES
\* under config/, with include_sessions the session state under sessions/,
\* and the manifest
ArchiveOf(l, id, include_sessions) ==
    LET w == [n \in WsNames |-> IF n \in CORE_FILES THEN l.ws[n] ELSE Absent]
        c == [n \in CfgNames |-> IF n \in CONFIG_FILES THEN l.cfg[n] ELSE NoCfg]
        s == IF include_sessions THEN l.sess ELSE Absent
    IN [ws |-> w, cfg |-> c, sessions |-> s, extra |-> {},
        manifest |-> [id |-> id,
                      file_count |-> Cardinality({n \in WsNames : w[n].kind # "absent"})
                                     + Cardinality({n \in CfgNames : c[n].kind # "absent"})
                                     + (IF s.kind # "absent" THEN 1 ELSE 0)]]

RECURSIVE SortDesc(_)
SortDesc(S) ==
    IF S = {} THEN <<>>
    ELSE LET m == CHOOSE x \in S : \A y \in S : y = x \/ NameLess(y, x)
         IN <<m>> \o SortDesc(S \ {m})

\* list_snapshots: every file with the extension gz, newest file name first
list_snapshots(d) ==
    LET names == SortDesc({f \in FileNames : d[f].state # "absent"})
    IN [i \in 1..Len(names) |-> [id |-> IdOf(names[i]), filename |-> names[i]]]

\* prune_old_snapshots, lines 175-184: remove_file on everything after the
\* first max_snapshots, in the order listed, with `?`: the first file that
\* cannot be removed ends the loop with its error.  locked: the files
\* remove_file fails on
PruneResult(d, max, locked) ==
    LET snapshots == list_snapshots(d)
        stuck == {i \in (max + 1)..Len(snapshots) : snapshots[i].filename \in locked}
        stop == IF stuck = {} THEN Len(snapshots) + 1
                ELSE CHOOSE i \in stuck : \A j \in stuck : i <= j
        old == {snapshots[i].filename : i \in (max + 1)..(stop - 1)}
    IN [ok |-> stuck = {},
        dir |-> [f \in FileNames |-> IF f \in old THEN NoFile ELSE d[f]]]

\* the directory prune_old_snapshots leaves when every remove_file succeeds
prune_old_snapshots(d, max) == PruneResult(d, max, {}).dir

(***************************************************************************)
(* Extraction: src/src/restore/mod.rs, lines 331-394.                      *)
(***************************************************************************)
\* extract_backup_to: the entries under workspace/ and config/ land in the
\* scratch directory; a file that is no complete archive ends in an error
\* lines 340-355 and 372-392: an entry whose path begins with one of the
\* prefixes is unpacked at the root joined with the path as it is; with
\* parent-directory components in it the file lands outside the root
Escaping(arch) == {e \in arch.extra : e.prefix \in Prefixes /\ e.up}

extract_backup_to(file) ==
    IF file.state # "complete"
    THEN [ok |-> FALSE, ws |-> EmptyArch.ws, cfg |-> EmptyArch.cfg, outside |-> {}]
    ELSE [ok |-> TRUE, ws |-> file.arch.ws, cfg |-> file.arch.cfg,
          outside |-> Escaping(file.arch)]

\* an extraction that has no branch for the entries under sessions/
ExtractWithoutSessions(file, l) ==
    IF file.state # "complete" THEN [ok |-> FALSE, live |-> l, outside |-> {}]
    ELSE [ok |-> TRUE, outside |-> Escaping(file.arch),
          live |-> [ws |-> [n \in WsNames |-> IF file.arch.ws[n].kind # "absent"
                                             THEN file.arch.ws[n] ELSE l.ws[n]],
                    cfg |-> [n \in CfgNames |-> IF file.arch.cfg[n].kind # "absent"
                                               THEN file.arch.cfg[n] ELSE l.cfg[n]],
                    sess |-> l.sess]]

\* an extraction that unpacks every entry of the archive, those under none of
\* the prefixes at their path as it is
ExtractEverything(file, l) ==
    IF file.state # "complete" THEN [ok |-> FALSE, live |-> l, outside |-> {}]
    ELSE [ok |-> TRUE, outside |-> file.arch.extra,
          live |-> [ws |-> [n \in WsNames |-> IF file.arch.ws[n].kind # "absent"
                                             THEN file.arch.ws[n] ELSE l.ws[n]],
                    cfg |-> [n \in CfgNames |-> IF file.arch.cfg[n].kind # "absent"
                                               THEN file.arch.cfg[n] ELSE l.cfg[n]],
                    sess |-> IF file.arch.sessions.kind # "absent"
                             THEN file.arch.sessions ELSE l.sess]]

\* extract_backup: the entries are unpacked over the live trees l: those
\* under workspace/ into the workspace, those under config/ into the config
\* directory, those under sessions/ into its agents/main/sessions
extract_backup(file, l) ==
    IF file.state # "complete" THEN [ok |-> FALSE, live |-> l, outside |-> {}]
    ELSE [ok |-> TRUE, outside |-> Escaping(file.arch),
          live |-> [ws |-> [n \in WsNames |-> IF file.arch.ws[n].kind # "absent"
                                             THEN file.arch.ws[n] ELSE l.ws[n]],
                    cfg |-> [n \in CfgNames |-> IF file.arch.cfg[n].kind # "absent"
                                               THEN file.arch.cfg[n] ELSE l.cfg[n]],
                    sess |-> IF file.arch.sessions.kind # "absent"
                             THEN file.arch.sessions ELSE l.sess]]

\* read_gateway_port (lines 190-214) on the live config directory c
read_gateway_port(c) ==
    LET f == IF c["openclaw.json"].kind # "absent" THEN c["openclaw.json"]
             ELSE c["clawdbot.json"]
    IN IF f.kind = "file" /\ f.json.parses /\ f.json.gateway /\ f.json.port.kind = "num"
       THEN f.json.port.val % (MaxPort + 1)
       ELSE DefaultPort

\* a host with `ss` and `lsof` installed and allowed to see the gateway
FullHost == [ss |-> "sees", lsof |-> "sees", locked |-> {}]
\* a command may be missing, or run without seeing the pid of the listener
\* (`ss -p` and `lsof` show the processes of other users to root only)
Hosts == [ss : {"missing", "blind", "sees"}, lsof : {"missing", "blind", "sees"},
          locked : {{}}]

\* what running the command gives: it cannot be run, it prints the pid of the
\* listener, it prints none.  The gateway, when it runs, is bound to the
\* default port
ToolAnswer(tool, port) ==
    IF host[tool] = "missing" THEN "spawnerr"
    ELSE IF host[tool] = "sees" /\ gw # "down" /\ port = DefaultPort THEN "pid"
    ELSE "nopid"

\* the commands find_gateway_pid runs (lines 217-252): ss, with `.ok()?`
\* returning None when ss cannot be run; lsof when ss ran and printed no pid
FindTrace(port) ==
    IF ToolAnswer("ss", port) = "nopid" THEN <<"ss", "lsof">> ELSE <<"ss">>

\* find_gateway_pid returns a pid: the last command it ran printed one
find_gateway_pid(port) ==
    LET trace == FindTrace(port)
    IN ToolAnswer(trace[Len(trace)], port) = "pid"

(***************************************************************************)
(* The state after construction.                                           *)
(***************************************************************************)
NoReq == [state |-> "absent", window |-> 0]
Windows == 0..MaxWindow
\* rollback_window_seconds is a u64 and the clock (SystemTime) holds fewer
\* seconds than that: at the scale of the model the clock holds the instants
\* up to InstantMax, and a request can name one window more than Windows
InstantMax == MaxTime + MaxWindow
HugeWindow == MaxWindow + 1
\* a deadline that leaves the window out
DeadlineNow(t, w) == [some |-> TRUE, val |-> t]

\* SystemTime + Duration (health/mod.rs line 146) is checked_add(..).expect(..)
checked_add(t, w) == [some |-> t + w <= InstantMax, val |-> t + w]
NoCheckpoint == [some |-> FALSE, deadline |-> 0, backup_id |-> FormatId(0), gen |-> 0]
NoArg == [has_id |-> FALSE, id |-> FormatId(0), force |-> FALSE, dry_run |-> FALSE]
NoSnap == [id |-> FormatId(0), filename |-> BackupName(0)]
\* read_gateway_port has not run
NoTarget == [read |-> FALSE, port |-> 0]
\* kill_process has not run
NoSignals == [log |-> <<>>, check |-> "none"]
\* listen has not been called
NoListener == [on |-> FALSE, allowed |-> {}, from |-> 0, ran |-> "none"]
NoIssues == [ran |-> FALSE, all |-> <<>>]

\* paths: whether cfg.backup.path is there when the daemon starts; a path that
\* is missing holds no file.  archives: what the file backup-<stamp of 0>, if
\* it is there, may hold
InitOf(configs, hosts, paths, archives) ==
    /\ now = 0
    /\ live = TreeGood
    /\ \E first \in {NoFile} \cup {[state |-> "complete", arch |-> a] : a \in archives},
          other \in {NoFile, ForeignFile} :
          dir = [f \in FileNames |-> IF f = BackupName(0) THEN first
                                     ELSE IF f = ForeignName THEN other ELSE NoFile]
    /\ backup_path \in paths
    /\ backup_path = "missing" => \A f \in FileNames : dir[f] = NoFile
    /\ outside = {}
    /\ tg = NoListener
    /\ gw = "up"
    /\ req = NoReq
    /\ reqGen = 0
    /\ writes = 0
    /\ cfg \in configs
    /\ incidents = <<>>
    /\ hpc = "sleep" /\ hSlept = FALSE /\ hreq = NoReq
    /\ consecutive_failures = 0
    /\ active_checkpoint = NoCheckpoint
    /\ bpc = "sleep" /\ bSlept = FALSE
    /\ cpc = "idle" /\ cmds = 0
    /\ tpc = [c \in Callers |-> "idle"]
    /\ tid = [c \in Callers |-> FormatId(0)]
    /\ tret = [c \in Callers |-> FALSE]
    /\ rpc = [c \in RestoreCallers |-> "idle"]
    /\ rarg = [c \in RestoreCallers |-> NoArg]
    /\ rsnap = [c \in RestoreCallers |-> NoSnap]
    /\ rwas_running = [c \in RestoreCallers |-> FALSE]
    /\ rissues = [c \in RestoreCallers |-> NoIssues]
    /\ rres = [c \in RestoreCallers |-> "none"]
    /\ rdid = [c \in RestoreCallers |-> {}]
    /\ rsig = [c \in RestoreCallers |-> NoSignals]
    /\ rfind = [c \in RestoreCallers |-> <<>>]
    /\ rport = [c \in RestoreCallers |-> NoTarget]
    /\ vws = NoValidation
    /\ host \in hosts
    /\ opened = {}

\* trees: what the snapshot taken before the start, if there is one, was
\* taken of
InitIn(configs, hosts, paths, trees) ==
    InitOf(configs, hosts, paths, {ArchiveOf(t, FormatId(0), FALSE) : t \in trees})

\* a snapshot of the tree of the tests, or of one that does not validate
InitAt(configs, hosts, paths) == InitIn(configs, hosts, paths, {TreeGood, TreeBroken})

\* a backup directory that is there
InitOn(configs, hosts) == InitAt(configs, hosts, {"dir"})

\* a host on which both commands are there and see the gateway
InitWith(configs) == InitOn(configs, {FullHost})

\* every Config the daemon may run with
Init ==
    InitWith([max_snapshots : 0..MaxRetention, include_sessions : {FALSE},
              auto_restore : BOOLEAN, unhealthy_threshold : 1..MaxThreshold])

\* the health settings are not read by the backup loop and the commands
InitOps ==
    InitWith([max_snapshots : 0..MaxRetention, include_sessions : {FALSE},
              auto_restore : {FALSE}, unhealthy_threshold : {1}])

envVars == <<now, live, gw, req, reqGen, writes>>
healthVars == <<hpc, hSlept, hreq, consecutive_failures, active_checkpoint, incidents, opened>>
backupVars == <<bpc, bSlept>>
cmdVars == <<cpc, cmds>>
snapVars == <<tpc, tid, tret>>
restoreVars == <<rpc, rarg, rsnap, rwas_running, rissues, rres, rdid, rsig, rfind,
                 rport>>

(***************************************************************************)
(* Scheduling.  The code of an activity between two of its awaits runs     *)
(* without a step of the others in between: health_loop and backup_loop    *)
(* are polled by one task (tokio::select! in run_daemon), and a command's  *)
(* synchronous stretch is taken at the same grain.  An activity is busy    *)
(* while inside such a stretch.                                            *)
(***************************************************************************)
RestoreBusy(c) == rpc[c] \in {"resolve", "validate", "locate", "extract", "done"}
HealthBusy == hpc = "snap" \/ RestoreBusy("health")
BackupBusy == bpc = "snap"
CmdBusy == cpc = "backup" \/ RestoreBusy("cmd")
AnyBusy == HealthBusy \/ BackupBusy \/ CmdBusy

\* the task of run_daemon is there: it has not panicked, and select! has not
\* returned and dropped the loops
DaemonUp == hpc \notin {"panicked", "dropped"}

(***************************************************************************)
(* The world around the daemon.                                            *)
(***************************************************************************)
\* a second passes; a loop asleep has then slept its interval
Tick ==
    /\ ~AnyBusy
    /\ now < MaxTime
    /\ now' = now + 1
    /\ hSlept' = TRUE
    /\ bSlept' = TRUE
    /\ UNCHANGED <<live, dir, backup_path, outside, gw, req, reqGen, writes, cfg, vws, host, tg, incidents, hpc, hreq,
                   consecutive_failures, active_checkpoint, bpc, cmdVars,
                   snapVars, restoreVars, opened>>

\* the supervised agent rewrites its workspace and config
AgentWrite ==
    /\ ~AnyBusy
    /\ writes < MaxWrites
    /\ writes' = writes + 1
    /\ \E t \in LiveTrees \ {live} : live' = t
    /\ UNCHANGED <<now, dir, backup_path, outside, gw, req, reqGen, cfg, vws, host, tg, healthVars, backupVars, cmdVars,
                   snapVars, restoreVars>>

\* the gateway crashes, hangs or comes back by itself
GatewayChange ==
    /\ ~AnyBusy
    /\ \E g \in {"up", "hung", "down"} \ {gw} : gw' = g
    /\ UNCHANGED <<now, live, dir, backup_path, outside, req, reqGen, writes, cfg, vws, host, tg, healthVars, backupVars,
                   cmdVars, snapVars, restoreVars>>

\* the skill files /var/rescueclaw/checkpoint-request.json
FileRequest ==
    /\ ~AnyBusy
    /\ req.state = "absent"
    /\ reqGen < MaxReq
    /\ \E st \in {"valid", "garbage"}, w \in Windows \cup {HugeWindow} :
         req' = [state |-> st, window |-> w]
    /\ reqGen' = reqGen + 1
    /\ UNCHANGED <<now, live, dir, backup_path, outside, gw, writes, cfg, vws, host, tg, healthVars, backupVars, cmdVars,
                   snapVars, restoreVars>>

\* the skill removes the request file
WithdrawRequest ==
    /\ ~AnyBusy
    /\ req.state # "absent"
    /\ req' = NoReq
    /\ UNCHANGED <<now, live, dir, backup_path, outside, gw, reqGen, writes, cfg, vws, host, tg, healthVars, backupVars,
                   cmdVars, snapVars, restoreVars>>

(***************************************************************************)
(* take_snapshot: src/src/backup/mod.rs, lines 44-129.                     *)
(***************************************************************************)
\* lines 45-56: the id from the clock, the file created (or truncated) under
\* its final name
TakeSnapshotBegin(c) ==
    /\ tpc[c] = "idle"
    /\ tpc' = [tpc EXCEPT ![c] = "building"]
    /\ tid' = [tid EXCEPT ![c] = FormatId(now)]
    /\ backup_path' = "dir"
    /\ outside' = outside
    /\ dir' = [dir EXCEPT ![FileNameOf(FormatId(now))] = PartialFile]
    /\ tret' = [tret EXCEPT ![c] = FALSE]

\* lines 58-129, with built saying whether every append succeeded: the archive
\* finished, its metadata read, the old snapshots pruned (line 118, with `?`)
TakeSnapshotResult(c, built) ==
    LET fname == FileNameOf(tid[c])
        ok == built /\ dir[fname].state # "absent"
        d1 == IF ok THEN [dir EXCEPT ![fname] =
                             [state |-> "complete",
                              arch |-> ArchiveOf(live, tid[c], cfg.include_sessions)]]
              ELSE dir
        pruned == PruneResult(d1, cfg.max_snapshots, host.locked)
    IN [ok |-> ok /\ pruned.ok, id |-> tid[c],
        dir |-> IF ok THEN pruned.dir ELSE d1]

TakeSnapshotEnd(c, r) ==
    /\ tpc[c] = "building"
    /\ tpc' = [tpc EXCEPT ![c] = "idle"]
    /\ tret' = [tret EXCEPT ![c] = r.ok]
    /\ dir' = r.dir
    /\ backup_path' = backup_path
    /\ outside' = outside
    /\ tid' = tid

(***************************************************************************)
(* restore_with_options: src/src/restore/mod.rs, lines 17-154.  A restore  *)
(* of caller c is at rpc[c]: "resolve", "validate", "locate", "stopped"    *)
(* (the sleep after the gateway was stopped), "extract", "wait" (the wait  *)
(* for the restarted gateway), "done" (returned, with rres[c]).            *)
(***************************************************************************)
\* restore (line 12) passes force = false, dry_run = false
RestoreBegin(c, a) ==
    /\ rpc[c] = "idle"
    /\ rpc' = [rpc EXCEPT ![c] = "resolve"]
    /\ rarg' = [rarg EXCEPT ![c] = a]
    /\ rsnap' = [rsnap EXCEPT ![c] = NoSnap]
    /\ rwas_running' = [rwas_running EXCEPT ![c] = FALSE]
    /\ rissues' = [rissues EXCEPT ![c] = NoIssues]
    /\ rres' = [rres EXCEPT ![c] = "none"]
    /\ rdid' = [rdid EXCEPT ![c] = {}]
    /\ rsig' = [rsig EXCEPT ![c] = NoSignals]
    /\ rfind' = [rfind EXCEPT ![c] = <<>>]
    /\ rport' = [rport EXCEPT ![c] = NoTarget]

\* the caller has the result: the locals of the call are gone
RestoreEnd(c) ==
    /\ rpc[c] = "done"
    /\ rpc' = [rpc EXCEPT ![c] = "idle"]
    /\ rarg' = [rarg EXCEPT ![c] = NoArg]
    /\ rsnap' = [rsnap EXCEPT ![c] = NoSnap]
    /\ rwas_running' = [rwas_running EXCEPT ![c] = FALSE]
    /\ rissues' = [rissues EXCEPT ![c] = NoIssues]
    /\ rres' = [rres EXCEPT ![c] = "none"]
    /\ rdid' = [rdid EXCEPT ![c] = {}]
    /\ rsig' = [rsig EXCEPT ![c] = NoSignals]
    /\ rfind' = [rfind EXCEPT ![c] = <<>>]
    /\ rport' = [rport EXCEPT ![c] = NoTarget]

Return(c, result) ==
    /\ rpc' = [rpc EXCEPT ![c] = "done"]
    /\ rres' = [rres EXCEPT ![c] = result]

\* a resolution that falls back to the first snapshot when the id is unknown
ResolveOrFirst(snapshots, a) ==
    IF a.has_id /\ \E i \in 1..Len(snapshots) : snapshots[i].id = a.id
    THEN [found |-> TRUE,
          snapshot |-> snapshots[CHOOSE i \in 1..Len(snapshots) : snapshots[i].id = a.id]]
    ELSE [found |-> TRUE, snapshot |-> snapshots[1]]

\* lines 29-38: the snapshot with the given id, or the first one listed
ResolveSnapshot(snapshots, a) ==
    IF a.has_id
    THEN LET hits == {i \in 1..Len(snapshots) : snapshots[i].id = a.id}
         IN IF hits = {} THEN [found |-> FALSE, snapshot |-> NoSnap]
            ELSE [found |-> TRUE,
                  snapshot |-> snapshots[CHOOSE i \in hits : \A j \in hits : i <= j]]
    ELSE [found |-> TRUE, snapshot |-> snapshots[1]]

\* lines 23-43
RestoreResolve(c) ==
    /\ rpc[c] = "resolve"
    /\ LET snapshots == list_snapshots(dir)
       IN IF Len(snapshots) = 0
          THEN Return(c, "ErrNoBackups") /\ rsnap' = rsnap
          ELSE LET r == ResolveSnapshot(snapshots, rarg[c])
               IN IF ~r.found
                  THEN Return(c, "ErrNotFound") /\ rsnap' = rsnap
                  ELSE /\ rpc' = [rpc EXCEPT ![c] = "validate"]
                       /\ rsnap' = [rsnap EXCEPT ![c] = r.snapshot]
                       /\ rres' = rres
    /\ UNCHANGED <<rarg, rwas_running, rissues, rdid, rsig, rfind, rport>>
    /\ UNCHANGED <<envVars, dir, backup_path, outside, cfg, vws, host, tg, healthVars, backupVars, cmdVars, snapVars>>

\* lines 51-59: both validators on the scratch copy, their issues concatenated
ValidateScratch(scratch) ==
    validate_openclaw_config(scratch.cfg)
    \o validate_workspace(IF \E n \in WsNames : scratch.ws[n].kind # "absent"
                          THEN "dir" ELSE "missing", scratch.ws, EntryCount(scratch.ws))

\* a restore that goes on whatever the validation found
ValidationNeverBlocks(issues) == FALSE

\* line 78: the validation blocks
ValidationBlocks(issues) == Len(ErrorsOf(issues)) > 0

\* a restore that does not look at dry_run after the validation
DryRunGoesOn(a) == FALSE

\* line 97: a dry run stops before anything is touched
DryRunStops(a) == a.dry_run

\* lines 45-103
RestoreValidate(c) ==
    /\ rpc[c] = "validate"
    /\ LET a == rarg[c]
           scratch == extract_backup_to(dir[rsnap[c].filename])
           all_issues == ValidateScratch(scratch)
       IN /\ outside' = IF a.force THEN outside
                        ELSE outside \cup {[root |-> "scratch", entry |-> e] :
                                              e \in scratch.outside}
          /\ IF ~a.force /\ ~scratch.ok
             THEN Return(c, "ErrIo") /\ rissues' = rissues
             ELSE /\ rissues' = [rissues EXCEPT ![c] =
                                   IF a.force THEN NoIssues
                                   ELSE [ran |-> TRUE, all |-> all_issues]]
                  /\ IF ~a.force /\ ValidationBlocks(all_issues)
                     THEN IF a.dry_run THEN Return(c, "Ok")
                          ELSE Return(c, "ErrValidation")
                     ELSE IF DryRunStops(a) THEN Return(c, "Ok")
                     ELSE /\ rpc' = [rpc EXCEPT ![c] = "locate"]
                          /\ rres' = rres
    /\ UNCHANGED <<rarg, rsnap, rwas_running, rdid, rsig, rfind, rport>>
    /\ UNCHANGED <<envVars, dir, backup_path, cfg, vws, host, tg, healthVars, backupVars, cmdVars,
                   snapVars>>

\* what `kill -0` can answer: the command did not run, it succeeded (the pid
\* is there), it failed (the pid is gone, or is not ours to signal)
CheckOutcomes(alive) ==
    IF alive THEN {"spawnerr", "success", "failure"} ELSE {"spawnerr", "failure"}

\* a kill_process that returns an error unless it has seen the process die
KillOrFail(alive, check) ==
    [log |-> <<"term", "sleep", "check">>
             \o (IF check = "success" THEN <<"kill9">> ELSE <<>>),
     check |-> check,
     dead |-> ~alive \/ check = "success",
     ok |-> check = "success"]

\* a kill_process that sends SIGKILL whatever the check says
KillWithoutCheck(alive, check) ==
    [log |-> <<"term", "sleep", "check", "kill9">>, check |-> check, dead |-> TRUE,
     ok |-> TRUE]

\* kill_process, lines 255-274: `kill pid` (its result dropped), a sleep of
\* 500 ms, `kill -0 pid`, and `kill -9 pid` when that check ran and succeeded.
\* alive: the process is still there after the sleep.  log: the commands run;
\* check: what `kill -0` answered;
\* dead: the process is gone when kill_process returns; ok: it returns Ok,
\* which line 273 does on every path
kill_process(alive, check) ==
    [log |-> <<"term", "sleep", "check">>
             \o (IF check = "success" THEN <<"kill9">> ELSE <<>>),
     check |-> check,
     dead |-> ~alive \/ check = "success",
     ok |-> TRUE]

\* lines 105-121: the gateway located by port and, when found, stopped with
\* kill_process(pid)?; the sleep follows
RestoreLocate(c) ==
    /\ rpc[c] = "locate"
    /\ LET was_running == find_gateway_pid(read_gateway_port(live.cfg))
       IN /\ rwas_running' = [rwas_running EXCEPT ![c] = was_running]
          /\ rfind' = [rfind EXCEPT ![c] = FindTrace(read_gateway_port(live.cfg))]
          /\ rport' = [rport EXCEPT ![c] = [read |-> TRUE,
                                            port |-> read_gateway_port(live.cfg)]]
          /\ IF was_running
             THEN /\ \E alive \in BOOLEAN : \E check \in CheckOutcomes(alive) :
                       LET k == kill_process(alive, check)
                       IN /\ gw' = IF k.dead THEN "down" ELSE gw
                          /\ rsig' = [rsig EXCEPT ![c] = [log |-> k.log, check |-> k.check]]
                          /\ IF k.ok
                             THEN /\ rpc' = [rpc EXCEPT ![c] = "stopped"]
                                  /\ rres' = rres
                             ELSE Return(c, "ErrKill")
                  /\ rdid' = [rdid EXCEPT ![c] = @ \cup {"kill"}]
             ELSE /\ gw' = gw
                  /\ rdid' = rdid
                  /\ rsig' = rsig
                  /\ rpc' = [rpc EXCEPT ![c] = "extract"]
                  /\ rres' = rres
    /\ UNCHANGED <<rarg, rsnap, rissues>>
    /\ UNCHANGED <<now, live, req, reqGen, writes, dir, backup_path, outside, cfg, vws, host, tg, healthVars, backupVars,
                   cmdVars, snapVars>>

\* line 129: the gateway is started again
RestartsGateway(c) == rwas_running[c]

\* what a launch command can give: it cannot be run, it exits with success,
\* it exits with a failure
LaunchOutcomes == {"spawnerr", "ok", "failed"}

\* start_openclaw_with_config, lines 277-326: the targeted start (openclaw or
\* clawdbot gateway start); Err when it cannot be run; when it ran and failed,
\* `systemctl --user restart`, its result dropped, and Ok.  launched: one of
\* the two commands exited with success
start_openclaw_with_config(targeted, fallback) ==
    [ok |-> targeted # "spawnerr",
     launched |-> targeted = "ok" \/ (targeted = "failed" /\ fallback = "ok")]

\* lines 123-134: the archive unpacked over the live trees, then
\* start_openclaw_with_config when the gateway had been running.  A launch
\* that succeeded leaves the gateway up, hung or down again; without one the
\* gateway is as it was
RestoreExtract(c) ==
    /\ rpc[c] \in {"stopped", "extract"}
    /\ LET ex == extract_backup(dir[rsnap[c].filename], live)
       IN /\ outside' = outside \cup {[root |-> "live", entry |-> e] : e \in ex.outside}
          /\ IF ~ex.ok
             THEN /\ Return(c, "ErrIo")
                  /\ rdid' = [rdid EXCEPT ![c] = @ \cup {"extract"}]
                  /\ UNCHANGED <<live, gw>>
             ELSE /\ live' = ex.live
                  /\ IF RestartsGateway(c)
                     THEN \E targeted \in LaunchOutcomes, fallback \in LaunchOutcomes :
                            LET st == start_openclaw_with_config(targeted, fallback)
                            IN /\ rdid' = [rdid EXCEPT ![c] = @ \cup {"extract", "start"}
                                              \cup (IF st.launched THEN {"launched"} ELSE {})]
                               /\ IF st.launched
                                  THEN gw' \in {"up", "hung", "down"}
                                  ELSE gw' = gw
                               /\ IF ~st.ok
                                  THEN Return(c, "ErrStart")
                                  ELSE /\ rpc' = [rpc EXCEPT ![c] = "wait"]
                                       /\ rres' = rres
                     ELSE /\ rdid' = [rdid EXCEPT ![c] = @ \cup {"extract"}]
                          /\ gw' = gw
                          /\ Return(c, "Ok")
    /\ UNCHANGED <<rarg, rsnap, rwas_running, rissues, rsig, rfind, rport>>
    /\ UNCHANGED <<now, req, reqGen, writes, dir, backup_path, cfg, vws, host, tg, healthVars, backupVars,
                   cmdVars, snapVars>>

\* wait_for_agent (lines 399-418): the status endpoint on the port answers
\* before the timeout; the gateway listens on DefaultPort
wait_for_agent(port) == gw = "up" /\ port = DefaultPort

\* lines 134-153: wait_for_agent answers ("alive") or times out; either way Ok
RestoreWait(c) ==
    /\ rpc[c] = "wait"
    /\ rdid' = [rdid EXCEPT ![c] = @ \cup (IF wait_for_agent(rport[c].port)
                                             THEN {"alive"} ELSE {})]
    /\ Return(c, "Ok")
    /\ UNCHANGED <<rarg, rsnap, rwas_running, rissues, rsig, rfind, rport>>
    /\ UNCHANGED <<envVars, dir, backup_path, outside, cfg, vws, host, tg, healthVars, backupVars, cmdVars, snapVars>>

RestoreStep(c) ==
    \/ RestoreResolve(c)
    \/ RestoreValidate(c)
    \/ RestoreLocate(c)
    \/ RestoreExtract(c)
    \/ RestoreWait(c)

(***************************************************************************)
(* health_loop: src/src/health/mod.rs, lines 129-229.  hpc is "sleep"      *)
(* (line 137), "snap" (inside take_snapshot, line 144), "probe" (line      *)
(* 175), "ckRestore" (inside the restore of line 208), "thRestore"         *)
(* (inside the restore of line 221), "panicked" (the task has ended) or     *)
(* "dropped" (select! has returned and dropped the loop's future).         *)
(***************************************************************************)
\* read_checkpoint_request: a present file with a parseable body
read_checkpoint_request(r) == r.state = "valid"

\* a loop without the deadline check of lines 168-173
ExpireNever(ck, t) == ck

\* lines 168-173: the checkpoint is dropped once its deadline has passed
ExpireCheckpoint(ck, t) == IF ck.some /\ t > ck.deadline THEN NoCheckpoint ELSE ck

\* a tick that takes a snapshot for every request it reads
HealthTickOpenAlways ==
    /\ hpc = "sleep" /\ hSlept /\ ~BackupBusy /\ ~CmdBusy
    /\ read_checkpoint_request(req)
    /\ TakeSnapshotBegin("health")
    /\ hpc' = "snap"
    /\ hreq' = req
    /\ UNCHANGED <<envVars, cfg, vws, host, tg, incidents, hSlept, consecutive_failures,
                   active_checkpoint, opened, backupVars, cmdVars, restoreVars>>

\* lines 137-144: a request and no active checkpoint: take_snapshot starts
HealthTickOpen ==
    /\ hpc = "sleep" /\ hSlept /\ ~BackupBusy /\ ~CmdBusy
    /\ read_checkpoint_request(req)
    /\ ~active_checkpoint.some
    /\ TakeSnapshotBegin("health")
    /\ hpc' = "snap"
    /\ hreq' = req
    /\ UNCHANGED <<envVars, cfg, vws, host, tg, incidents, hSlept, consecutive_failures,
                   active_checkpoint, opened, backupVars, cmdVars, restoreVars>>

\* lines 144-173: the checkpoint opened on the snapshot, or the failure logged.
\* The deadline is now + window: when the clock cannot hold it the addition
\* panics, and the panic ends the task that runs the three loops
HealthSnapshotDone ==
    /\ hpc = "snap"
    /\ \E built \in BOOLEAN :
         LET r == TakeSnapshotResult("health", built)
             deadline == checked_add(now, hreq.window)
             ck == IF r.ok
                   THEN [some |-> TRUE, deadline |-> deadline.val,
                         backup_id |-> r.id, gen |-> reqGen]
                   ELSE active_checkpoint
         IN /\ TakeSnapshotEnd("health", r)
            /\ IF r.ok /\ ~deadline.some
               THEN /\ hpc' = "panicked"
                    /\ UNCHANGED <<active_checkpoint, opened>>
               ELSE /\ hpc' = "probe"
                    /\ active_checkpoint' = ExpireCheckpoint(ck, now)
                    /\ opened' = IF r.ok
                                 THEN opened \cup {[gen |-> ck.gen, deadline |-> ck.deadline]}
                                 ELSE opened
    /\ UNCHANGED <<envVars, cfg, vws, host, tg, incidents, hSlept, hreq, consecutive_failures,
                   backupVars, cmdVars, restoreVars>>

\* lines 137-173 otherwise: a request while a checkpoint is active is ignored,
\* a withdrawn request closes the checkpoint, an expired checkpoint is dropped
HealthTick ==
    /\ hpc = "sleep" /\ hSlept /\ ~BackupBusy /\ ~CmdBusy
    /\ ~(read_checkpoint_request(req) /\ ~active_checkpoint.some)
    /\ active_checkpoint' =
         ExpireCheckpoint(IF read_checkpoint_request(req) THEN active_checkpoint
                          ELSE NoCheckpoint, now)
    /\ hpc' = "probe"
    /\ hreq' = req
    /\ UNCHANGED <<envVars, dir, backup_path, outside, cfg, vws, host, tg, incidents, hSlept, consecutive_failures, opened,
                   backupVars, cmdVars, snapVars, restoreVars>>

\* the port of the URL check_agent_alive requests (line 98)
StatusPort == 7744

\* check_agent_alive (lines 93-103): the status endpoint answers
check_agent_alive == gw = "up"

\* a checkpoint restore held back until auto_restore and the threshold allow it
CheckpointRestoreGated ==
    /\ active_checkpoint.some /\ now <= active_checkpoint.deadline
    /\ cfg.auto_restore /\ consecutive_failures + 1 >= cfg.unhealthy_threshold

\* line 205-206: an active checkpoint whose deadline has not passed
CheckpointRestoreDue == active_checkpoint.some /\ now <= active_checkpoint.deadline

\* a threshold test that does not look at auto_restore
ThresholdOnly(failures) == failures >= cfg.unhealthy_threshold

\* line 219, on the counter after its increment
AutoRestoreDue(failures) == cfg.auto_restore /\ failures >= cfg.unhealthy_threshold

\* a probe that succeeded and leaves the counter as it was
HealthProbeAliveKeeps ==
    /\ hpc = "probe" /\ ~BackupBusy /\ ~CmdBusy
    /\ check_agent_alive
    /\ consecutive_failures' = consecutive_failures
    /\ hpc' = "sleep"
    /\ hSlept' = FALSE
    /\ UNCHANGED <<envVars, dir, backup_path, outside, cfg, vws, host, tg, incidents, hreq, active_checkpoint, opened,
                   backupVars, cmdVars, snapVars, restoreVars>>

\* lines 175-181: the probe succeeded
HealthProbeAlive ==
    /\ hpc = "probe" /\ ~BackupBusy /\ ~CmdBusy
    /\ check_agent_alive
    /\ consecutive_failures' = 0
    /\ hpc' = "sleep"
    /\ hSlept' = FALSE
    /\ UNCHANGED <<envVars, dir, backup_path, outside, cfg, vws, host, tg, incidents, hreq, active_checkpoint, opened,
                   backupVars, cmdVars, snapVars, restoreVars>>

\* lines 182-226: the probe failed: the counter, the incident, and the restore
\* of the checkpoint's snapshot or of the latest one
HealthProbeFailed ==
    /\ hpc = "probe" /\ ~BackupBusy /\ ~CmdBusy
    /\ ~check_agent_alive
    /\ consecutive_failures' = consecutive_failures + 1
    /\ incidents' = IF backup_path = "dir"
                     THEN Append(incidents, consecutive_failures + 1)
                     ELSE incidents
    /\ IF CheckpointRestoreDue
       THEN /\ RestoreBegin("health", [has_id |-> TRUE, id |-> active_checkpoint.backup_id,
                                       force |-> FALSE, dry_run |-> FALSE])
            /\ hpc' = "ckRestore"
            /\ hSlept' = hSlept
       ELSE IF AutoRestoreDue(consecutive_failures + 1)
       THEN /\ RestoreBegin("health", NoArg)
            /\ hpc' = "thRestore"
            /\ hSlept' = hSlept
       ELSE /\ hpc' = "sleep"
            /\ hSlept' = FALSE
            /\ UNCHANGED restoreVars
    /\ UNCHANGED <<envVars, dir, backup_path, outside, cfg, vws, host, tg, hreq, active_checkpoint, opened,
                   backupVars, cmdVars, snapVars>>

\* a loop without the `continue` of line 215: after a checkpoint restore that
\* failed it goes on to the threshold test and restores again
HealthRestoreFallsThrough ==
    /\ hpc \in {"ckRestore", "thRestore"} /\ ~BackupBusy /\ ~CmdBusy
    /\ rpc["health"] = "done"
    /\ consecutive_failures' = IF rres["health"] = "Ok" THEN 0 ELSE consecutive_failures
    /\ active_checkpoint' = IF rres["health"] = "Ok" /\ hpc = "ckRestore"
                            THEN NoCheckpoint ELSE active_checkpoint
    /\ IF hpc = "ckRestore" /\ rres["health"] # "Ok" /\ AutoRestoreDue(consecutive_failures)
       THEN /\ hpc' = "thRestore"
            /\ hSlept' = hSlept
            /\ rpc' = [rpc EXCEPT !["health"] = "resolve"]
            /\ rarg' = [rarg EXCEPT !["health"] = NoArg]
            /\ rsnap' = [rsnap EXCEPT !["health"] = NoSnap]
            /\ rwas_running' = [rwas_running EXCEPT !["health"] = FALSE]
            /\ rissues' = [rissues EXCEPT !["health"] = NoIssues]
            /\ rres' = [rres EXCEPT !["health"] = "none"]
            /\ rdid' = [rdid EXCEPT !["health"] = {}]
            /\ rsig' = [rsig EXCEPT !["health"] = NoSignals]
            /\ rfind' = [rfind EXCEPT !["health"] = <<>>]
            /\ rport' = [rport EXCEPT !["health"] = NoTarget]
       ELSE /\ hpc' = "sleep"
            /\ hSlept' = FALSE
            /\ RestoreEnd("health")
    /\ UNCHANGED <<envVars, dir, backup_path, outside, cfg, vws, host, tg, incidents, hreq, opened, backupVars, cmdVars,
                   snapVars>>

\* lines 208-214 and 221-225: the restore returned
HealthRestoreReturn ==
    /\ hpc \in {"ckRestore", "thRestore"} /\ ~BackupBusy /\ ~CmdBusy
    /\ rpc["health"] = "done"
    /\ consecutive_failures' = IF rres["health"] = "Ok" THEN 0 ELSE consecutive_failures
    /\ active_checkpoint' = IF rres["health"] = "Ok" /\ hpc = "ckRestore"
                            THEN NoCheckpoint ELSE active_checkpoint
    /\ hpc' = "sleep"
    /\ hSlept' = FALSE
    /\ RestoreEnd("health")
    /\ UNCHANGED <<envVars, dir, backup_path, outside, cfg, vws, host, tg, incidents, hreq, opened, backupVars, cmdVars,
                   snapVars>>

HealthRestoreStep ==
    /\ hpc \in {"ckRestore", "thRestore"} /\ ~BackupBusy /\ ~CmdBusy
    /\ RestoreStep("health")

(***************************************************************************)
(* backup_loop: src/src/backup/mod.rs, lines 187-196.                      *)
(***************************************************************************)
BackupTick ==
    /\ bpc = "sleep" /\ bSlept /\ ~HealthBusy /\ ~CmdBusy
    /\ DaemonUp
    /\ TakeSnapshotBegin("backup")
    /\ bpc' = "snap"
    /\ UNCHANGED <<envVars, cfg, vws, host, tg, healthVars, bSlept, cmdVars, restoreVars>>

BackupSnapshotDone ==
    /\ bpc = "snap"
    /\ \E built \in BOOLEAN : TakeSnapshotEnd("backup", TakeSnapshotResult("backup", built))
    /\ bpc' = "sleep"
    /\ bSlept' = FALSE
    /\ UNCHANGED <<envVars, cfg, vws, host, tg, healthVars, cmdVars, restoreVars>>

(***************************************************************************)
(* The command interface: cmd_backup and cmd_rescue of                     *)
(* src/src/telegram/mod.rs, Commands::Backup and Commands::Restore of      *)
(* src/src/main.rs, and callers of the public restore_with_options.        *)
(***************************************************************************)
CmdBackup ==
    /\ cpc = "idle" /\ cmds < MaxCmds /\ ~HealthBusy /\ ~BackupBusy
    /\ TakeSnapshotBegin("cmd")
    /\ cpc' = "backup"
    /\ cmds' = cmds + 1
    /\ UNCHANGED <<envVars, cfg, vws, host, tg, healthVars, backupVars, restoreVars>>

CmdBackupDone ==
    /\ cpc = "backup"
    /\ \E built \in BOOLEAN : TakeSnapshotEnd("cmd", TakeSnapshotResult("cmd", built))
    /\ cpc' = "idle"
    /\ UNCHANGED <<envVars, cfg, vws, host, tg, healthVars, backupVars, cmds, restoreVars>>

\* the ids a command may name: those listed, and one that is not
CmdIds == {IdOf(f) : f \in {g \in FileNames : dir[g].state # "absent"}}
          \cup {FormatId(MaxTime + 1)}

CmdRestore ==
    /\ cpc = "idle" /\ cmds < MaxCmds /\ ~HealthBusy /\ ~BackupBusy
    /\ \E has_id \in BOOLEAN, id \in CmdIds, force \in BOOLEAN, dry_run \in BOOLEAN :
         /\ has_id \/ id = FormatId(MaxTime + 1)
         /\ RestoreBegin("cmd", [has_id |-> has_id, id |-> id, force |-> force,
                                 dry_run |-> dry_run])
    /\ cpc' = "restore"
    /\ cmds' = cmds + 1
    /\ UNCHANGED <<envVars, dir, backup_path, outside, cfg, vws, host, tg, healthVars, backupVars, snapVars>>

CmdRestoreStep ==
    /\ cpc = "restore" /\ ~HealthBusy /\ ~BackupBusy
    /\ RestoreStep("cmd")

CmdRestoreReturn ==
    /\ cpc = "restore"
    /\ rpc["cmd"] = "done"
    /\ RestoreEnd("cmd")
    /\ cpc' = "idle"
    /\ UNCHANGED <<envVars, dir, backup_path, outside, cfg, vws, host, tg, healthVars, backupVars, cmds, snapVars>>

(***************************************************************************)
(* The Telegram listener: src/src/telegram/mod.rs.  A user id is a         *)
(* positive number; a message without a sender counts as from user 0       *)
(* (line 17).                                                              *)
(***************************************************************************)
Users == {1, 2}
Senders == {0} \cup Users
\* the first word of the texts handle_command tells apart (lines 42-58)
Texts == {"/help", "/status", "/rescue", "/backup", "/logs", "other"}

\* line 20, negated: the message goes on to handle_command
Authorized(allowed, user_id) == allowed = {} \/ user_id \in allowed

\* lines 7-10: listen copies cfg.telegram.allowed_users, whatever the list is
TgListen ==
    /\ ~tg.on
    /\ \E allowed \in SUBSET Users : tg' = [tg EXCEPT !.on = TRUE, !.allowed = allowed]
    /\ UNCHANGED <<envVars, dir, backup_path, outside, cfg, vws, host, healthVars, backupVars,
                   cmdVars, snapVars, restoreVars>>

\* lines 12-30 and 38-59: one message: the auth check, then handle_command.
\* /backup is cmd_backup (take_snapshot), /rescue is cmd_rescue (restore of
\* the latest snapshot), /status and /logs only read
TgMessage ==
    /\ tg.on
    /\ cpc = "idle" /\ cmds < MaxCmds /\ ~HealthBusy /\ ~BackupBusy
    /\ \E from \in Senders, text \in Texts :
         IF ~Authorized(tg.allowed, from)
         THEN /\ tg' = [tg EXCEPT !.from = from, !.ran = "Unauthorized"]
              /\ UNCHANGED <<envVars, dir, backup_path, outside, cfg, vws, host, healthVars,
                             backupVars, cmdVars, snapVars, restoreVars>>
         ELSE /\ tg' = [tg EXCEPT !.from = from, !.ran = text]
              /\ IF text = "/backup"
                 THEN /\ TakeSnapshotBegin("cmd")
                      /\ cpc' = "backup"
                      /\ cmds' = cmds + 1
                      /\ UNCHANGED <<envVars, cfg, vws, host, healthVars, backupVars,
                                     restoreVars>>
                 ELSE IF text = "/rescue"
                 THEN /\ RestoreBegin("cmd", NoArg)
                      /\ cpc' = "restore"
                      /\ cmds' = cmds + 1
                      /\ UNCHANGED <<envVars, dir, backup_path, outside, cfg, vws, host,
                                     healthVars, backupVars, snapVars>>
                 ELSE UNCHANGED <<envVars, dir, backup_path, outside, cfg, vws, host,
                                  healthVars, backupVars, cmdVars, snapVars, restoreVars>>

NextListen ==
    \/ TgListen
    \/ TgMessage
    \/ GatewayChange
    \/ CmdBackupDone
    \/ CmdRestoreStep
    \/ CmdRestoreReturn

SpecListen == InitOps /\ [][NextListen]_vars

(***************************************************************************)
(* run_daemon: the three activities and the world, interleaved.            *)
(***************************************************************************)
Next ==
    \/ Tick
    \/ AgentWrite
    \/ GatewayChange
    \/ FileRequest
    \/ WithdrawRequest
    \/ HealthTickOpen
    \/ HealthSnapshotDone
    \/ HealthTick
    \/ HealthProbeAlive
    \/ HealthProbeFailed
    \/ HealthRestoreStep
    \/ HealthRestoreReturn
    \/ BackupTick
    \/ BackupSnapshotDone
    \/ CmdBackup
    \/ CmdBackupDone
    \/ CmdRestore
    \/ CmdRestoreStep
    \/ CmdRestoreReturn

Spec == Init /\ [][Next]_vars

\* the health loop alone, with the world around it
NextHealth ==
    \/ Tick
    \/ GatewayChange
    \/ FileRequest
    \/ WithdrawRequest
    \/ HealthTickOpen
    \/ HealthSnapshotDone
    \/ HealthTick
    \/ HealthProbeAlive
    \/ HealthProbeFailed
    \/ HealthRestoreStep
    \/ HealthRestoreReturn

SpecHealth == Init /\ [][NextHealth]_vars

\* the backup loop and the commands, with the world around them
NextOps ==
    \/ Tick
    \/ AgentWrite
    \/ GatewayChange
    \/ BackupTick
    \/ BackupSnapshotDone
    \/ CmdBackup
    \/ CmdBackupDone
    \/ CmdRestore
    \/ CmdRestoreStep
    \/ CmdRestoreReturn

SpecOps == InitOps /\ [][NextOps]_vars


(***************************************************************************)
(* run_daemon's select! (src/src/main.rs, lines 106-110) with a listener   *)
(* that returns: telegram::listen ends when teloxide's repl ends (its      *)
(* dispatcher stops on Ctrl-C).  select! then returns and drops the other  *)
(* two futures wherever they are suspended: at the sleep of a loop, at the *)
(* probe, or at an await inside a restore the health loop is running.      *)
(***************************************************************************)
ListenReturns ==
    /\ DaemonUp
    /\ ~HealthBusy /\ ~BackupBusy
    /\ hpc' = "dropped"
    /\ UNCHANGED <<envVars, dir, backup_path, outside, cfg, vws, host, tg, incidents, hSlept, hreq, consecutive_failures,
                   active_checkpoint, opened, backupVars, cmdVars, snapVars,
                   restoreVars>>

\* a daemon with auto_restore on
InitDaemon ==
    InitWith([max_snapshots : {MaxRetention}, include_sessions : {FALSE},
              auto_restore : {TRUE}, unhealthy_threshold : {1}])

NextDaemon ==
    \/ NextHealth
    \/ ListenReturns

SpecDaemon == InitDaemon /\ [][NextDaemon]_vars

(***************************************************************************)
(* take_snapshot followed by extract_backup into an empty workspace and an *)
(* empty config directory, on every tree of RoundTripTrees.                *)
(***************************************************************************)
EmptyTree ==
    [ws |-> [n \in WsNames |-> Absent], cfg |-> [n \in CfgNames |-> NoCfg], sess |-> Absent]

RoundTripTrees ==
    [ws : [WsNames -> {Absent, File(1), Dir(1)}],
     cfg : [CfgNames -> {NoCfg, CfgFile(JsonTest)}],
     sess : {Absent, Dir(1)}]

InitRoundTrip ==
    /\ now = 0
    /\ live \in RoundTripTrees
    /\ dir = [f \in FileNames |-> NoFile]
    /\ backup_path = "dir"
    /\ outside = {}
    /\ tg = NoListener
    /\ gw = "down"
    /\ req = NoReq
    /\ reqGen = 0
    /\ writes = 0
    /\ cfg \in [max_snapshots : {MaxRetention}, include_sessions : BOOLEAN,
                auto_restore : {FALSE}, unhealthy_threshold : {1}]
    /\ incidents = <<>>
    /\ hpc = "sleep" /\ hSlept = FALSE /\ hreq = NoReq
    /\ consecutive_failures = 0
    /\ active_checkpoint = NoCheckpoint
    /\ bpc = "sleep" /\ bSlept = FALSE
    /\ cpc = "idle" /\ cmds = 0
    /\ tpc = [c \in Callers |-> "idle"]
    /\ tid = [c \in Callers |-> FormatId(0)]
    /\ tret = [c \in Callers |-> FALSE]
    /\ rpc = [c \in RestoreCallers |-> "idle"]
    /\ rarg = [c \in RestoreCallers |-> NoArg]
    /\ rsnap = [c \in RestoreCallers |-> NoSnap]
    /\ rwas_running = [c \in RestoreCallers |-> FALSE]
    /\ rissues = [c \in RestoreCallers |-> NoIssues]
    /\ rres = [c \in RestoreCallers |-> "none"]
    /\ rdid = [c \in RestoreCallers |-> {}]
    /\ rsig = [c \in RestoreCallers |-> NoSignals]
    /\ rfind = [c \in RestoreCallers |-> <<>>]
    /\ rport = [c \in RestoreCallers |-> NoTarget]
    /\ vws = NoValidation
    /\ host = FullHost
    /\ opened = {}

\* extract_backup of the snapshot just returned, with the workspace and the
\* config directory of the Config empty
RoundTripRestore ==
    /\ cpc = "idle" /\ tret["cmd"]
    /\ LET ex == extract_backup(dir[FileNameOf(tid["cmd"])], EmptyTree)
       IN /\ ex.ok /\ live' = ex.live
          /\ outside' = outside \cup {[root |-> "live", entry |-> e] : e \in ex.outside}
    /\ cpc' = "restored"
    /\ UNCHANGED <<now, dir, backup_path, gw, req, reqGen, writes, cfg, vws, host, tg, healthVars, backupVars,
                   cmds, snapVars, restoreVars>>

NextRoundTrip ==
    \/ CmdBackup
    \/ CmdBackupDone
    \/ RoundTripRestore

SpecRoundTrip == InitRoundTrip /\ [][NextRoundTrip]_vars

(***************************************************************************)
(* The restore command on every host: `ss` and `lsof` each missing, blind  *)
(* or seeing the listener.                                                 *)
(***************************************************************************)
InitLocate ==
    InitOn([max_snapshots : {MaxRetention}, include_sessions : {FALSE},
            auto_restore : {FALSE}, unhealthy_threshold : {1}], Hosts)

NextLocate ==
    \/ GatewayChange
    \/ CmdRestore
    \/ CmdRestoreStep
    \/ CmdRestoreReturn

SpecLocate == InitLocate /\ [][NextLocate]_vars

(***************************************************************************)
(* The backups on a host that refuses to remove some file of the backup    *)
(* directory (a file of another owner in a sticky directory, an immutable  *)
(* file).                                                                  *)
(***************************************************************************)
PruneHosts == [ss : {"sees"}, lsof : {"sees"}, locked : {{}, {BackupName(0)}, {ForeignName}}]

InitPrune ==
    InitOn([max_snapshots : 0..MaxRetention, include_sessions : {FALSE},
            auto_restore : {FALSE}, unhealthy_threshold : {1}], PruneHosts)

NextPrune ==
    \/ Tick
    \/ AgentWrite
    \/ BackupTick
    \/ BackupSnapshotDone
    \/ CmdBackup
    \/ CmdBackupDone

SpecPrune == InitPrune /\ [][NextPrune]_vars

(***************************************************************************)
(* The health loop of a daemon started before anything created the backup  *)
(* directory, and of one started after: take_snapshot is what creates it   *)
(* (backup/mod.rs, line 51), the health loop opens incidents.jsonl in it.  *)
(***************************************************************************)
InitLog ==
    InitAt([max_snapshots : {MaxRetention}, include_sessions : {FALSE},
            auto_restore : {TRUE}, unhealthy_threshold : 1..MaxThreshold],
           {FullHost}, {"missing", "dir"})

SpecLog == InitLog /\ [][NextHealth]_vars

(***************************************************************************)
(* The restore command against every content of the live config           *)
(* directory that read_gateway_port tells apart: each of the two files     *)
(* absent, unparseable, without a gateway section, without a port, or with *)
(* a port that is a u64.                                                   *)
(***************************************************************************)
PortValues ==
    {NoPort, Port(0), Port(1), Port(DefaultPort), Port(MaxPort), Port(MaxPort + 1),
     Port(MaxPort + 2)}

PortJsons ==
    {[JsonTest EXCEPT !.port = p] : p \in PortValues}
    \cup {[JsonTest EXCEPT !.parses = FALSE], [JsonTest EXCEPT !.gateway = FALSE]}

PortConfigDirs == [CfgNames -> {NoCfg} \cup {CfgFile(j) : j \in PortJsons}]

\* the agent, or its operator, rewrites the config directory
AgentSetsPort ==
    /\ ~AnyBusy
    /\ writes < MaxWrites
    /\ writes' = writes + 1
    /\ \E c \in PortConfigDirs : live' = [live EXCEPT !.cfg = c]
    /\ UNCHANGED <<now, dir, backup_path, outside, gw, req, reqGen, cfg, vws, host, tg, healthVars, backupVars, cmdVars,
                   snapVars, restoreVars>>

InitPort ==
    InitOn([max_snapshots : {MaxRetention}, include_sessions : {FALSE},
            auto_restore : {FALSE}, unhealthy_threshold : {1}], {FullHost})

NextPort ==
    \/ AgentSetsPort
    \/ CmdRestore
    \/ CmdRestoreStep
    \/ CmdRestoreReturn

SpecPort == InitPort /\ [][NextPort]_vars

(***************************************************************************)
(* The restore command on a snapshot of every config file that the port    *)
(* check and the baseUrl check of validate_openclaw_config tell apart: a    *)
(* gateway.port that is absent, a u64, or a JSON value as_u64 gives None    *)
(* for (a negative number, a fraction, a string); one or two providers,    *)
(* each with a baseUrl that is an http(s) URL, empty, another string, or   *)
(* no string at all (absent).                                              *)
(***************************************************************************)
NotU64(k) == [kind |-> k, val |-> 0]

ConfigPorts == PortValues \cup {NotU64(k) : k \in {"negative", "fraction", "string"}}

ConfigProviders ==
    [baseUrl : {"https", "empty", "other", "absent"}, apiKey : {"real"},
     models : {"nonempty"}]

ConfigJsons ==
    {[JsonClean EXCEPT !.port = p] : p \in ConfigPorts}
    \cup {[JsonClean EXCEPT !.plist = <<a>>] : a \in ConfigProviders}
    \cup {[JsonClean EXCEPT !.plist = <<a, b>>] : a, b \in ConfigProviders}

ConfigTrees ==
    {[TreeGood EXCEPT !.cfg = [n \in CfgNames |-> IF n = "openclaw.json"
                                                  THEN CfgFile(j) ELSE NoCfg]] :
       j \in ConfigJsons}

InitConfig ==
    InitIn([max_snapshots : {MaxRetention}, include_sessions : {FALSE},
            auto_restore : {FALSE}, unhealthy_threshold : {1}], {FullHost}, {"dir"},
           ConfigTrees)

NextConfig ==
    \/ CmdRestore
    \/ CmdRestoreStep
    \/ CmdRestoreReturn

SpecConfig == InitConfig /\ [][NextConfig]_vars

(***************************************************************************)
(* The health loop and the backup loop of one daemon side by side: a       *)
(* checkpoint window during which the scheduled backup runs.               *)
(***************************************************************************)
InitWindow ==
    InitIn([max_snapshots : {MaxRetention}, include_sessions : {FALSE},
            auto_restore : {FALSE}, unhealthy_threshold : {1}], {FullHost}, {"dir"},
           {TreeGood})

NextWindow ==
    \/ Tick
    \/ GatewayChange
    \/ FileRequest
    \/ HealthTickOpen
    \/ HealthSnapshotDone
    \/ HealthTick
    \/ HealthProbeAlive
    \/ HealthProbeFailed
    \/ HealthRestoreStep
    \/ HealthRestoreReturn
    \/ BackupTick
    \/ BackupSnapshotDone

SpecWindow == InitWindow /\ [][NextWindow]_vars

(***************************************************************************)
(* The restore command on an archive that take_snapshot did not write, or  *)
(* that was changed since: besides the entries of a snapshot it holds any  *)
(* of the ExtraEntries, and session state or none.                         *)
(***************************************************************************)
CraftedArchives ==
    {[ArchiveOf(t, FormatId(0), FALSE) EXCEPT !.extra = x, !.sessions = s] :
       t \in {TreeGood, TreeBroken}, x \in SUBSET ExtraEntries, s \in {Absent, Dir(2)}}

InitExtract ==
    InitOf([max_snapshots : {MaxRetention}, include_sessions : {FALSE},
            auto_restore : {FALSE}, unhealthy_threshold : {1}], {FullHost}, {"dir"},
           CraftedArchives)

NextExtract ==
    \/ AgentWrite
    \/ CmdRestore
    \/ CmdRestoreStep
    \/ CmdRestoreReturn

SpecExtract == InitExtract /\ [][NextExtract]_vars

(***************************************************************************)
(* validate_workspace on every workspace path: a path that is missing, a   *)
(* file, or a directory holding any of the named entries as a file or a    *)
(* directory, and up to MaxOthers entries besides them.                    *)
(***************************************************************************)
ValidateInputs ==
    {[path |-> "missing", ws |-> [n \in WsNames |-> Absent], others |-> 0,
      done |-> FALSE, issues |-> <<>>],
     [path |-> "file", ws |-> [n \in WsNames |-> Absent], others |-> 0,
      done |-> FALSE, issues |-> <<>>]}
    \cup [path : {"dir"}, ws : [WsNames -> {Absent, File(1), Dir(1)}],
          others : 0..MaxOthers, done : {FALSE}, issues : {<<>>}]

InitValidate ==
    /\ now = 0
    /\ live = EmptyTree
    /\ dir = [f \in FileNames |-> NoFile]
    /\ backup_path = "dir"
    /\ outside = {}
    /\ tg = NoListener
    /\ gw = "down"
    /\ req = NoReq
    /\ reqGen = 0
    /\ writes = 0
    /\ cfg \in [max_snapshots : {MaxRetention}, include_sessions : {FALSE},
                auto_restore : {FALSE}, unhealthy_threshold : {1}]
    /\ incidents = <<>>
    /\ hpc = "sleep" /\ hSlept = FALSE /\ hreq = NoReq
    /\ consecutive_failures = 0
    /\ active_checkpoint = NoCheckpoint
    /\ bpc = "sleep" /\ bSlept = FALSE
    /\ cpc = "idle" /\ cmds = 0
    /\ tpc = [c \in Callers |-> "idle"]
    /\ tid = [c \in Callers |-> FormatId(0)]
    /\ tret = [c \in Callers |-> FALSE]
    /\ rpc = [c \in RestoreCallers |-> "idle"]
    /\ rarg = [c \in RestoreCallers |-> NoArg]
    /\ rsnap = [c \in RestoreCallers |-> NoSnap]
    /\ rwas_running = [c \in RestoreCallers |-> FALSE]
    /\ rissues = [c \in RestoreCallers |-> NoIssues]
    /\ rres = [c \in RestoreCallers |-> "none"]
    /\ rdid = [c \in RestoreCallers |-> {}]
    /\ rsig = [c \in RestoreCallers |-> NoSignals]
    /\ rfind = [c \in RestoreCallers |-> <<>>]
    /\ rport = [c \in RestoreCallers |-> NoTarget]
    /\ host = FullHost
    /\ vws \in ValidateInputs
    /\ opened = {}

\* the call: read_dir yields the named entries that are there and the others
ValidateWorkspace ==
    /\ ~vws.done
    /\ vws' = [vws EXCEPT !.done = TRUE,
                          !.issues = validate_workspace(vws.path, vws.ws,
                                                        EntryCount(vws.ws) + vws.others)]
    /\ UNCHANGED <<envVars, dir, backup_path, outside, cfg, host, tg, healthVars, backupVars, cmdVars,
                   snapVars, restoreVars>>

NextValidate == ValidateWorkspace

SpecValidate == InitValidate /\ [][NextValidate]_vars

(***************************************************************************)
(* The properties.                                                         *)
(***************************************************************************)
\* a restore or a take_snapshot of caller c is between its first and last step
RestoreRunning(c) == rpc[c] \notin {"idle", "done"}
SnapshotRunning(c) == tpc[c] = "building"

HasError(issues) == \E i \in 1..Len(issues) : issues[i].severity = "Error"

\* C1: while a restore is in progress no other restore and no take_snapshot is
\* in progress, whoever started them.
C1_RestoreExcludesOthers ==
    \A c \in RestoreCallers :
        RestoreRunning(c) =>
            /\ \A d \in RestoreCallers \ {c} : ~RestoreRunning(d)
            /\ \A d \in Callers : ~SnapshotRunning(d)

\* the probe of this step failed while a checkpoint was active
ProbeFailsInWindow ==
    /\ hpc = "probe" /\ hpc' # "probe"
    /\ ~check_agent_alive
    /\ active_checkpoint.some /\ now <= active_checkpoint.deadline

\* this step invokes the restore of the active checkpoint's snapshot
CheckpointRestoreInvoked ==
    /\ hpc' = "ckRestore"
    /\ rpc["health"] = "idle" /\ rpc'["health"] = "resolve"
    /\ rarg'["health"] = [has_id |-> TRUE, id |-> active_checkpoint.backup_id,
                          force |-> FALSE, dry_run |-> FALSE]

\* C2: a failure seen at a tick up to the deadline of the checkpoint a request
\* opened restores that checkpoint's snapshot; past the deadline of the
\* checkpoint the request opened, a failure starts no checkpoint restore,
\* whatever the ticks and the request file do.
C2_WindowBoundsCheckpointRestore ==
    [][ /\ ProbeFailsInWindow => CheckpointRestoreInvoked
        /\ (hpc = "probe" /\ hpc' = "ckRestore") =>
              \A k \in opened : k.gen = active_checkpoint.gen => now <= k.deadline
      ]_vars

\* C3: a failed probe with an active checkpoint and now <= deadline invokes the
\* restore of the checkpoint's snapshot, whatever the failure counter, the
\* threshold and auto_restore are.
C3_CheckpointRestoreBypassesThreshold ==
    [][ProbeFailsInWindow => CheckpointRestoreInvoked]_vars

\* the checkpoint restore is running although auto_restore is off and the
\* failures are below the threshold
C3_Witness ==
    /\ hpc = "ckRestore" /\ rpc["health"] = "resolve"
    /\ rarg["health"].has_id /\ rarg["health"].id = active_checkpoint.backup_id
    /\ ~cfg.auto_restore
    /\ consecutive_failures < cfg.unhealthy_threshold

\* C4: a restore without force and without dry_run whose validation found an
\* Error returns the validation error, having stopped no process, extracted
\* nothing over the live trees and started no process.
C4_ValidationErrorBlocks ==
    \A c \in RestoreCallers :
        ( /\ rpc[c] = "done"
          /\ ~rarg[c].force /\ ~rarg[c].dry_run
          /\ rissues[c].ran /\ HasError(rissues[c].all) )
        => (rres[c] = "ErrValidation" /\ rdid[c] = {})

\* such a restore has returned while the gateway was there to be stopped
C4_Witness ==
    /\ rpc["cmd"] = "done"
    /\ ~rarg["cmd"].force /\ ~rarg["cmd"].dry_run
    /\ rissues["cmd"].ran /\ HasError(rissues["cmd"].all)
    /\ find_gateway_pid(read_gateway_port(live.cfg))

RestoreValidated(c) ==
    /\ rres[c] \notin {"ErrNoBackups", "ErrNotFound"}
    /\ rarg[c].force \/ rissues[c].ran

\* C6: a restore without dry_run reaches the live extraction exactly when
\* force is set or the validation found no Error; Warnings do not block.
C6_ExtractionIffForcedOrNoError ==
    \A c \in RestoreCallers :
        /\ "extract" \in rdid[c] =>
              (rarg[c].force \/ (rissues[c].ran /\ ~HasError(rissues[c].all)))
        /\ (rpc[c] = "done" /\ ~rarg[c].dry_run /\ RestoreValidated(c)) =>
              ("extract" \in rdid[c]
                  <=> (rarg[c].force \/ ~HasError(rissues[c].all)))

\* an unforced restore whose validation found Warnings only has extracted
C6_Witness ==
    /\ rpc["cmd"] = "done" /\ ~rarg["cmd"].force /\ ~rarg["cmd"].dry_run
    /\ rissues["cmd"].ran /\ Len(rissues["cmd"].all) > 0
    /\ ~HasError(rissues["cmd"].all)
    /\ "extract" \in rdid["cmd"] /\ rres["cmd"] = "Ok"

\* C7: a restore that found and stopped the gateway starts it again, and a
\* restore starts the gateway only when it had found it running; stated for
\* the restores every caller in the repository makes, those without force.
C7_StartIffWasRunning ==
    \A c \in RestoreCallers :
        ~rarg[c].force =>
            /\ "start" \in rdid[c] => rwas_running[c]
            /\ (rpc[c] = "done" /\ rwas_running[c]) => "start" \in rdid[c]

\* C8: list_snapshots returns no archive that is still being written or that
\* a failed take_snapshot left behind.
C8_NoPartialSnapshotListed ==
    LET snapshots == list_snapshots(dir)
    IN \A i \in 1..Len(snapshots) : dir[snapshots[i].filename].state # "partial"

\* C9: a snapshot take_snapshot returned keeps its archive for as long as the
\* file exists; only pruning removes it.
C9_SnapshotNeverRewritten ==
    [][ \A f \in FileNames :
          (dir[f].state = "complete" /\ dir'[f].state # "absent") => dir'[f] = dir[f]
      ]_vars

\* C10: when take_snapshot returns Ok its snapshot is in the backup directory
\* and is the first one list_snapshots returns.
C10_NewSnapshotListedFirst ==
    [][ \A c \in Callers :
          (tpc[c] = "building" /\ tpc'[c] = "idle" /\ tret'[c]) =>
              LET snapshots == list_snapshots(dir')
              IN /\ dir'[FileNameOf(tid[c])].state = "complete"
                 /\ Len(snapshots) > 0
                 /\ snapshots[1].id = tid[c]
      ]_vars

\* the files list_snapshots takes for snapshots
Listed(d) == {f \in FileNames : d[f].state # "absent"}

\* r was created before k, as far as the names and the call that is returning
\* (which created justWritten last of all) tell; the age of the other gz file
\* is not known
CreatedBefore(r, k, justWritten) ==
    /\ r # justWritten
    /\ \/ k = justWritten
       \/ r.kind = "other" \/ k.kind = "other"
       \/ r.t < k.t

\* C11: a successful take_snapshot leaves at most max_snapshots listed
\* snapshots, exactly max_snapshots when there were more, and every snapshot
\* it removed was created before every snapshot it kept.
C11_PruneKeepsNewest ==
    [][ \A c \in Callers :
          (tpc[c] = "building" /\ tpc'[c] = "idle" /\ tret'[c]) =>
              LET kept == Listed(dir')
                  removed == Listed(dir) \ kept
              IN /\ Cardinality(kept) <= cfg.max_snapshots
                 /\ Cardinality(Listed(dir)) > cfg.max_snapshots
                       => Cardinality(kept) = cfg.max_snapshots
                 /\ \A r \in removed, k \in kept :
                       CreatedBefore(r, k, FileNameOf(tid[c]))
      ]_vars

TickStarts == hpc = "sleep" /\ hpc' # "sleep"

\* C13: there is one checkpoint slot: a checkpoint is opened only while none
\* is active, and a tick that finds a request while a checkpoint is active
\* takes no snapshot and leaves the checkpoint as it is (it may only drop it
\* because its deadline has passed).
C13_SingleSlotCheckpoint ==
    [][ /\ opened' # opened => ~active_checkpoint.some
        /\ (TickStarts /\ read_checkpoint_request(req) /\ active_checkpoint.some) =>
              /\ hpc' # "snap" /\ tpc' = tpc /\ dir' = dir /\ opened' = opened
              /\ \/ active_checkpoint' = active_checkpoint
                 \/ /\ now > active_checkpoint.deadline
                    /\ active_checkpoint' = NoCheckpoint
      ]_vars

\* the last tick read a request other than the one the active checkpoint was
\* opened for (its window is not the checkpoint's), and the checkpoint stands
C13_Witness ==
    /\ hpc = "probe"
    /\ active_checkpoint.some /\ active_checkpoint.gen < reqGen
    /\ hreq.state = "valid"
    /\ active_checkpoint.backup_id.t + hreq.window # active_checkpoint.deadline

\* this step is the return of the checkpoint restore to the health loop
CheckpointRestoreReturns == hpc = "ckRestore" /\ hpc' # "ckRestore"

\* C14: an active checkpoint is cleared at the start of a tick exactly when
\* the request is absent or unreadable or the deadline has passed, and by the
\* return of a checkpoint restore exactly when that restore succeeded; it is
\* cleared or changed by nothing else.  A tick that cleared it at its start
\* makes no checkpoint restore; a checkpoint restore that failed leaves the
\* checkpoint and the failure counter as they are.
C14_CheckpointClearedIff ==
    [][ /\ (TickStarts /\ active_checkpoint.some) =>
              /\ hpc' = "probe"
              /\ active_checkpoint' \in {active_checkpoint, NoCheckpoint}
              /\ active_checkpoint' = NoCheckpoint
                    <=> (~read_checkpoint_request(req) \/ now > active_checkpoint.deadline)
        /\ CheckpointRestoreReturns =>
              IF rres["health"] = "Ok"
              THEN active_checkpoint' = NoCheckpoint /\ consecutive_failures' = 0
              ELSE /\ active_checkpoint.some
                   /\ active_checkpoint' = active_checkpoint
                   /\ consecutive_failures' = consecutive_failures
        /\ (hpc = "probe" /\ hpc' = "ckRestore") =>
              active_checkpoint.some /\ active_checkpoint' = active_checkpoint
        /\ (active_checkpoint.some /\ ~TickStarts /\ ~CheckpointRestoreReturns) =>
              active_checkpoint' = active_checkpoint
      ]_vars

\* a tick has ended with its checkpoint restore failed: the checkpoint is
\* still active inside its window and the counter holds the failures
C14_Witness ==
    /\ hpc = "sleep" /\ ~hSlept
    /\ active_checkpoint.some /\ now <= active_checkpoint.deadline
    /\ consecutive_failures > 0

\* C15: nothing that happens in a tick ends the health loop, the backup loop
\* or the daemon: the task that runs them is never brought down.
C15_LoopsNeverStop == hpc # "panicked"

\* C16: when select! returns and the loops are dropped, no restore of the
\* health loop is left between its first and its last step.
C16_RestoreNotAbandoned == hpc = "dropped" => ~RestoreRunning("health")

\* the step in which the restore of caller c resolves its snapshot
Resolves(c) == rpc[c] = "resolve" /\ rpc'[c] # "resolve"

NotFoundResults == {"ErrNoBackups", "ErrNotFound"}

\* C17: restore returns a not-found error exactly when nothing is listed or
\* the id it was given is the id of no listed snapshot, and has then validated
\* nothing, stopped no process and changed nothing in the live trees or the
\* backup directory; without an id it goes on with the first listed snapshot,
\* and with a listed id with the snapshot of that id.
C17_NotFoundTouchesNothing ==
    [][Resolves("cmd") =>
        LET snapshots == list_snapshots(dir)
            a == rarg["cmd"]
            missing == \/ Len(snapshots) = 0
                       \/ a.has_id /\ \A i \in 1..Len(snapshots) : snapshots[i].id # a.id
        IN /\ missing <=> rres'["cmd"] \in NotFoundResults
           /\ missing =>
                /\ rpc'["cmd"] = "done"
                /\ rdid'["cmd"] = {} /\ ~rissues'["cmd"].ran
                /\ live' = live /\ gw' = gw /\ dir' = dir
           /\ ~missing =>
                /\ rpc'["cmd"] = "validate"
                /\ ~a.has_id => rsnap'["cmd"] = snapshots[1]
                /\ a.has_id => rsnap'["cmd"].id = a.id
    ]_vars

\* a restore that named an id no snapshot has, with snapshots listed, has
\* returned the error
C17_Witness ==
    /\ rpc["cmd"] = "done" /\ rres["cmd"] = "ErrNotFound"
    /\ rarg["cmd"].has_id
    /\ Len(list_snapshots(dir)) > 0

\* the log of a kill_process that ran: the signal, the wait, the check
TwoPhase(log) == Len(log) >= 3 /\ SubSeq(log, 1, 3) = <<"term", "sleep", "check">>

\* C18: in the step in which a restore stops the gateway, kill_process first
\* runs the graceful signal, then sleeps, then checks the pid, and runs the
\* forceful kill after that exactly when the check reported the pid alive;
\* nothing else is run, and no restore runs a signal in any other step.
C18_TwoPhaseKill ==
    [][\A c \in RestoreCallers :
        IF rpc[c] = "locate" /\ "kill" \in rdid'[c]
        THEN LET log == rsig'[c].log
             IN /\ TwoPhase(log)
                /\ Len(log) <= 4
                /\ \A i \in 1..Len(log) : log[i] = "kill9" => i = 4
                /\ (Len(log) = 4 /\ log[4] = "kill9") <=> (rsig'[c].check = "success")
        ELSE rsig'[c] = rsig[c] \/ rsig'[c] = NoSignals
    ]_vars

\* a restore has stopped a gateway that outlived the graceful signal
C18_Witness ==
    /\ rpc["cmd"] = "stopped"
    /\ rsig["cmd"] = [log |-> <<"term", "sleep", "check", "kill9">>, check |-> "success"]
    /\ gw = "down"

\* C19: a tick starts the restore of the latest snapshot (restore with no id)
\* exactly when its probe failed, no restore of a checkpoint was started in
\* the tick, auto_restore is on and the counter, after the increment of the
\* tick, has reached unhealthy_threshold; nothing else starts one.  While the
\* restore runs the counter stays; when it returns Ok the counter becomes 0,
\* when it returns an error the counter is left as it is.
C19_ThresholdRestore ==
    [][/\ hpc = "probe" /\ hpc' # "probe" =>
            /\ hpc' = "thRestore" <=>
                 /\ ~check_agent_alive
                 /\ ~CheckpointRestoreDue
                 /\ cfg.auto_restore
                 /\ consecutive_failures + 1 >= cfg.unhealthy_threshold
            /\ hpc' = "thRestore" =>
                 /\ consecutive_failures' = consecutive_failures + 1
                 /\ rpc'["health"] = "resolve"
                 /\ ~rarg'["health"].has_id
       /\ hpc # "probe" /\ hpc' = "thRestore" =>
            /\ hpc = "thRestore"
            /\ consecutive_failures' = consecutive_failures
       /\ hpc = "thRestore" /\ hpc' # "thRestore" =>
            /\ rpc["health"] = "done"
            /\ consecutive_failures' =
                 IF rres["health"] = "Ok" THEN 0 ELSE consecutive_failures
            /\ hpc' = "sleep"
    ]_vars

\* a restore started at the second failure in a row has returned an error
C19_Witness ==
    /\ hpc = "thRestore"
    /\ cfg.unhealthy_threshold = 2 /\ consecutive_failures = 2
    /\ rpc["health"] = "done" /\ rres["health"] # "Ok"

\* the issue is one of those returned
Yields(issues, issue) == \E i \in 1..Len(issues) : issues[i] = issue

\* 1 when the condition holds, else 0
Count(b) == IF b THEN 1 ELSE 0

\* C20: validate_workspace returns one Error and nothing else for a path that
\* is missing or is not a directory.  For a directory it returns an Error
\* exactly when SOUL.md is missing, a Warning exactly when AGENTS.md is
\* missing, a Warning exactly when memory is missing, an Error exactly when
\* memory is there and is not a directory, a Warning exactly when the
\* directory has fewer than 3 entries, and nothing besides these; so a
\* directory with all three, memory a directory, returns no issue.
C20_ValidateWorkspace ==
    vws.done =>
        LET issues == vws.issues
            w == vws.ws
            count == EntryCount(w) + vws.others
            noSoul == w["SOUL.md"].kind = "absent"
            noAgents == w["AGENTS.md"].kind = "absent"
            noMemory == w["memory"].kind = "absent"
            badMemory == w["memory"].kind = "file"
            sparse == count < 3
        IN /\ vws.path = "missing" => issues = <<Error("Workspace path does not exist")>>
           /\ vws.path = "file" => issues = <<Error("Workspace path is not a directory")>>
           /\ vws.path = "dir" =>
                /\ Yields(issues, Error("Missing SOUL.md")) <=> noSoul
                /\ Yields(issues, Warning("Missing AGENTS.md")) <=> noAgents
                /\ Yields(issues, Warning("Missing memory/ directory")) <=> noMemory
                /\ Yields(issues, Error("memory exists but is not a directory")) <=> badMemory
                /\ Yields(issues, Warning("Workspace seems sparse")) <=> sparse
                /\ Len(issues) = Count(noSoul) + Count(noAgents) + Count(noMemory)
                                 + Count(badMemory) + Count(sparse)
                /\ Len(ErrorsOf(issues)) = Count(noSoul) + Count(badMemory)
                /\ (~noSoul /\ ~noAgents /\ w["memory"].kind = "dir") => issues = <<>>

\* a directory with the identity file and the agents file whose memory is a
\* file: the one issue is the Error about memory
C20_Witness ==
    /\ vws.done /\ vws.path = "dir"
    /\ vws.ws["SOUL.md"].kind = "file" /\ vws.ws["AGENTS.md"].kind = "file"
    /\ vws.ws["memory"].kind = "file"
    /\ vws.issues = <<Error("memory exists but is not a directory")>>

\* C21: a find_gateway_pid that returned no pid has run ss and then lsof.
C21_FallbackBeforeNone ==
    \A c \in RestoreCallers :
        (rfind[c] # <<>> /\ ~rwas_running[c]) => rfind[c] = <<"ss", "lsof">>

\* C22: a restore that tried to start the gateway and saw no launch command
\* succeed has returned the start error.
C22_StartFailureReported ==
    \A c \in RestoreCallers :
        (rpc[c] = "done" /\ "start" \in rdid[c] /\ "launched" \notin rdid[c])
            => rres[c] = "ErrStart"

\* C23: a take_snapshot that has built its archive returns it as a success
\* whatever the removal of the excess snapshots gave, and has removed every
\* excess snapshot that can be removed.
C23_PruneFailureNotFatal ==
    [][\A c \in Callers :
        (tpc[c] = "building" /\ tpc'[c] = "idle"
         /\ dir'[FileNameOf(tid[c])].state = "complete")
        => /\ tret'[c]
           /\ LET snapshots == list_snapshots(dir')
              IN \A i \in (cfg.max_snapshots + 1)..Len(snapshots) :
                    snapshots[i].filename \in host.locked
    ]_vars

\* C24: the stop of the gateway never ends a restore.  Whatever kill_process
\* met (a pid that is gone, a pid it cannot signal, a check that did not run)
\* the restore goes on to the sleep, and from the sleep to the extraction
\* onto the live directories; so no restore that stopped the gateway has
\* returned without the extraction.
C24_KillNeverAborts ==
    [][\A c \in RestoreCallers :
        /\ (rpc[c] = "locate" /\ "kill" \in rdid'[c]) =>
              rpc'[c] = "stopped" /\ rres'[c] = "none"
        /\ (rpc[c] = "stopped" /\ rpc'[c] # "stopped") => "extract" \in rdid'[c]
        /\ (rpc'[c] = "done" /\ "kill" \in rdid'[c]) => "extract" \in rdid'[c]
    ]_vars

\* a restore whose kill_process could not tell that the gateway had stopped
\* has put the archive onto the live directories and returned Ok
C24_Witness ==
    /\ rpc["cmd"] = "done" /\ rres["cmd"] = "Ok"
    /\ rsig["cmd"].check = "failure"
    /\ {"kill", "extract"} \subseteq rdid["cmd"]
    /\ live = extract_backup(dir[rsnap["cmd"].filename], live).live

\* C25: the counter is the number of failed probes in a row since the loop
\* started, the last probe that succeeded, or the last restore of the loop
\* that returned Ok.  It starts at 0; a probe that succeeds sets it to 0; a
\* probe that fails adds exactly 1, in the step that decides on a restore; a
\* restore of the loop that returns Ok sets it to 0 and one that returns an
\* error leaves it; nothing else changes it.
C25_CounterCountsFailures ==
    [][IF hpc = "probe" /\ hpc' # "probe"
       THEN consecutive_failures' =
              IF check_agent_alive THEN 0 ELSE consecutive_failures + 1
       ELSE IF hpc \in {"ckRestore", "thRestore"} /\ hpc' = "sleep"
       THEN consecutive_failures' =
              IF rres["health"] = "Ok" THEN 0 ELSE consecutive_failures
       ELSE consecutive_failures' = consecutive_failures
    ]_vars

\* three probes failed: the restore after the first returned Ok, the restore
\* after the second an error
C25_Witness ==
    /\ hpc = "sleep" /\ consecutive_failures = 2
    /\ incidents = <<1, 1, 2>>

\* C26: a checkpoint is opened only by the tick that read a request that
\* parses while no checkpoint was active and whose take_snapshot returned Ok:
\* its backup_id is the id of that snapshot and its deadline the clock at the
\* opening plus the window of the request.  A take_snapshot that fails leaves
\* no checkpoint.  While the checkpoint is open neither field changes.
C26_CheckpointOpening ==
    [][ /\ (hpc = "sleep" /\ hpc' = "snap") =>
              /\ read_checkpoint_request(req) /\ hreq' = req
              /\ ~active_checkpoint.some /\ ~active_checkpoint'.some
        /\ (~active_checkpoint.some /\ active_checkpoint'.some) =>
              /\ hpc = "snap" /\ read_checkpoint_request(hreq)
              /\ tret'["health"]
              /\ active_checkpoint'.backup_id = tid["health"]
              /\ active_checkpoint'.backup_id = FormatId(now)
              /\ active_checkpoint'.deadline = now + hreq.window
        /\ (hpc = "snap" /\ hpc' # "snap" /\ ~tret'["health"]) =>
              active_checkpoint' = NoCheckpoint
        /\ active_checkpoint.some =>
              active_checkpoint' \in {active_checkpoint, NoCheckpoint}
      ]_vars

\* a checkpoint opened at this tick for a request with a window of one second
C26_Witness ==
    /\ hpc = "probe" /\ active_checkpoint.some
    /\ hreq.state = "valid" /\ hreq.window = 1
    /\ active_checkpoint.backup_id = FormatId(now)
    /\ active_checkpoint.deadline = now + 1

\* C27: the health loop calls restore at most once in a tick.  A restore is
\* started only by the step that handles the failed probe, and the return of
\* a restore, of the checkpoint's snapshot or of the latest one, Ok or not,
\* ends the tick: the loop is at its sleep with no restore running.  After a
\* checkpoint restore the threshold is not looked at.
C27_OneRestorePerTick ==
    [][ /\ (rpc["health"] = "idle" /\ rpc'["health"] # "idle") =>
              hpc = "probe" /\ hpc' \in {"ckRestore", "thRestore"}
        /\ (hpc = "probe" /\ hpc' = "ckRestore") => rarg'["health"].has_id
        /\ hpc = "ckRestore" => hpc' \in {"ckRestore", "sleep"}
        /\ hpc = "thRestore" => hpc' \in {"thRestore", "sleep"}
        /\ (hpc \in {"ckRestore", "thRestore"} /\ hpc' = "sleep") =>
              rpc'["health"] = "idle" /\ ~hSlept'
      ]_vars

\* a checkpoint restore has returned an error with auto_restore on and the
\* counter at the threshold
C27_Witness ==
    /\ hpc = "ckRestore" /\ rpc["health"] = "done" /\ rres["health"] # "Ok"
    /\ cfg.auto_restore /\ consecutive_failures >= cfg.unhealthy_threshold

\* the port written in the config file read_gateway_port reads: openclaw.json
\* when it is there, else clawdbot.json
ConfiguredPort(c) ==
    IF c["openclaw.json"].kind # "absent" THEN c["openclaw.json"].json.port
    ELSE c["clawdbot.json"].json.port

\* C28: the port a restore targets is the port written in the config file, or
\* 7744, and no other number.
C28_PortConfiguredOrDefault ==
    [][\A c \in RestoreCallers :
        (rpc[c] = "locate" /\ rpc'[c] # "locate") =>
            /\ rport'[c].read
            /\ \/ rport'[c].port = DefaultPort
               \/ /\ ConfiguredPort(live.cfg).kind = "num"
                  /\ rport'[c].port = ConfiguredPort(live.cfg).val
    ]_vars

\* C29: list_snapshots returns the files of the backup directory named
\* backup-<stamp>.tar.gz, each once and no other file, the later stamp first;
\* for a directory with none it returns the empty sequence.
C29_ListsOnlyBackups ==
    LET snapshots == list_snapshots(dir)
        named == {f \in FileNames : dir[f].state # "absent" /\ f.kind = "backup"}
    IN /\ {snapshots[i].filename : i \in 1..Len(snapshots)} = named
       /\ Len(snapshots) = Cardinality(named)
       /\ \A i, j \in 1..Len(snapshots) :
            i < j => snapshots[i].filename.t > snapshots[j].filename.t

\* C30: the incident log is append-only.  A health tick whose probe fails
\* appends exactly one record, in the step that may go on to start a restore
\* (so a restore of the health loop never starts without the record of its
\* tick); every other step, a tick whose probe succeeds among them, leaves
\* the log as it is.  The log of any state is then a prefix of every later one.
C30_IncidentsAppendOnly ==
    [][IF hpc = "probe" /\ hpc' # "probe" /\ ~check_agent_alive
       THEN /\ Len(incidents') = Len(incidents) + 1
            /\ SubSeq(incidents', 1, Len(incidents)) = incidents
       ELSE incidents' = incidents]_vars

\* the config file of the snapshot a restore of caller c resolved
SnapshotConfig(c) == dir[rsnap[c].filename].arch.cfg["openclaw.json"]

\* a restore of caller c has validated a snapshot whose config file parses
ValidatedConfig(c) ==
    /\ rissues[c].ran
    /\ dir[rsnap[c].filename].state = "complete"
    /\ SnapshotConfig(c).kind = "file"
    /\ SnapshotConfig(c).json.parses

\* C31: the validation of a config whose gateway section has a port yields
\* the Error "Invalid gateway port" exactly when the port is not an integer
\* of 1..65535 (zero, negative, above 65535, not a number); with the port
\* absent it yields no such Error.
C31_PortValidated ==
    \A c \in RestoreCallers :
        (ValidatedConfig(c) /\ SnapshotConfig(c).json.gateway) =>
            LET port == SnapshotConfig(c).json.port
                all == rissues[c].all
            IN (\E i \in 1..Len(all) : all[i] = Error("Invalid gateway port"))
               <=> /\ port.kind # "absent"
                   /\ ~(port.kind = "num" /\ port.val \in 1..MaxPort)

\* C32: the validation yields one Error for every provider of the providers
\* section whose baseUrl is not a non-empty string that begins with http://
\* or https://, and none for the others; a restore without force and without
\* dry_run of a snapshot with such a provider returns the validation error.
C32_ProviderUrlValidated ==
    \A c \in RestoreCallers :
        (ValidatedConfig(c) /\ rpc[c] # "idle"
         /\ SnapshotConfig(c).json.providers = "object") =>
            LET plist == SnapshotConfig(c).json.plist
                all == rissues[c].all
                bad == {i \in 1..Len(plist) : plist[i].baseUrl # "https"}
                errs == {i \in 1..Len(all) :
                           all[i] \in {Error("empty baseUrl"), Error("invalid baseUrl")}}
            IN /\ Cardinality(errs) = Cardinality(bad)
               /\ (bad # {} /\ ~rarg[c].dry_run) => rres[c] = "ErrValidation"

\* C33: one filing of the checkpoint request opens at most one checkpoint: no
\* two of the checkpoints opened so far were opened for the same filing.
C33_OneCheckpointPerFiling ==
    \A a, b \in opened : a.gen = b.gen => a = b

\* C34: while a checkpoint is open its snapshot is in the backup directory,
\* whatever the backup loop has taken and pruned since, and the restore of a
\* checkpoint's snapshot does not return a not-found error.
C34_CheckpointSnapshotKept ==
    /\ active_checkpoint.some =>
          dir[FileNameOf(active_checkpoint.backup_id)].state = "complete"
    /\ (hpc = "ckRestore" /\ rpc["health"] = "done") =>
          rres["health"] \notin NotFoundResults

\* C35: a restore that has run kill_process on the gateway it found does not
\* return, with an error or without, before it has called
\* start_openclaw_with_config.
C35_StoppedGatewayRestarted ==
    \A c \in RestoreCallers :
        (rpc[c] = "done" /\ "kill" \in rdid[c]) => "start" \in rdid[c]

\* C36: the health loop resets the failure counter on the return of a restore
\* only when that restore has seen the gateway answer: restore does not return
\* Ok when it found no gateway to restart, nor when the gateway it started
\* did not answer before the timeout.
C36_ResetOnlyWhenResponsive ==
    [][(hpc \in {"ckRestore", "thRestore"} /\ hpc' = "sleep"
        /\ consecutive_failures' = 0) => "alive" \in rdid["health"]]_vars

\* C37: the port on which the health loop probes the gateway is the port a
\* restore targets (to locate the gateway, and to check it after the
\* restart), whatever gateway port the live config names.
C37_ProbePortIsTargetPort ==
    \A c \in RestoreCallers : rport[c].read => rport[c].port = StatusPort

\* the archive of the snapshot a restore of caller c resolved
SnapshotArchive(c) == dir[rsnap[c].filename].arch

\* this step is the live extraction of the restore of caller c, and it went
\* through
Extracts(c) ==
    /\ rpc[c] \in {"stopped", "extract"} /\ rpc'[c] \notin {"stopped", "extract"}
    /\ rres'[c] # "ErrIo"

\* C38: the live extraction writes what the archive has under workspace/,
\* config/ and sessions/ and nothing else: a live file with an entry becomes
\* the entry, a live file without one stays as it is, and no entry under
\* another prefix is ever written.  No other step of a restore (a step that
\* moves it on) changes the live directories.
C38_ExtractionFrame ==
    [][\A c \in RestoreCallers :
        /\ IF Extracts(c)
           THEN LET arch == SnapshotArchive(c)
                IN /\ \A n \in WsNames :
                        live'.ws[n] = IF arch.ws[n].kind # "absent"
                                      THEN arch.ws[n] ELSE live.ws[n]
                   /\ \A n \in CfgNames :
                        live'.cfg[n] = IF arch.cfg[n].kind # "absent"
                                       THEN arch.cfg[n] ELSE live.cfg[n]
                   /\ live'.sess = IF arch.sessions.kind # "absent"
                                   THEN arch.sessions ELSE live.sess
           ELSE rpc'[c] # rpc[c] => live' = live
        /\ \A x \in outside' : x.entry.prefix \in Prefixes
    ]_vars

\* a forced restore of an archive without SOUL.md, with a changed AGENTS.md
\* and with an entry under no prefix has returned Ok: SOUL.md is still there,
\* AGENTS.md is the archive's, notes.txt is as it was
C38_Witness ==
    /\ rpc["cmd"] = "done" /\ rres["cmd"] = "Ok" /\ "extract" \in rdid["cmd"]
    /\ Unprefixed \in SnapshotArchive("cmd").extra
    /\ SnapshotArchive("cmd").ws["SOUL.md"].kind = "absent"
    /\ live.ws["SOUL.md"] = File(1)
    /\ live.ws["AGENTS.md"] = File(3)
    /\ live.ws["notes.txt"] = File(1)

\* C39: no restore writes a file outside the directory it unpacks into (the
\* scratch directory of the validation, the live workspace and config
\* directory), whatever the paths of the archive's entries are.
C39_NothingWrittenOutside ==
    outside = {}

\* C40: a message whose sender is not in the list of allowed users makes the
\* listener run nothing: it is answered "Unauthorized" and no status, log,
\* take_snapshot or restore is started, whatever the list is, the empty list
\* included.
C40_UnlistedSenderRunsNothing ==
    [][(tg.on /\ tg' # tg /\ tg'.from \notin tg.allowed) =>
          /\ tg'.ran = "Unauthorized"
          /\ cpc' = cpc /\ tpc' = tpc /\ rpc' = rpc /\ dir' = dir]_vars

====
